---- MODULE Spec2Model ----
(***************************************************************************)
(* Model of the Oklahoma Bill Tracker synchronisation pipeline             *)
(* (database/sync-database.js over schema.sql) and of the stage            *)
(* determination logic duplicated in server.js and server-enhanced.js.     *)
(***************************************************************************)
EXTENDS Integers, Sequences, FiniteSets, TLC

VARIABLES
  srcBills,       \* the source's /bills pages (array of response.data)
  srcPeople,      \* the source's /people pages
  bills,          \* table bills
  bill_history,   \* table bill_history
  bill_actions,   \* table bill_actions
  sponsorships,   \* table sponsorships
  legislators,    \* table legislators
  sync_metadata,  \* table sync_metadata, by sync_type
  local,          \* per sync process: position and local variables of runSync
  runs,           \* number of sync processes started so far
  faults,         \* number of awaited calls that have rejected so far
  observed,       \* history variable: per bill id, the source records written so far
  pre,            \* history variable: the tables and the source when the run started
  stageInput,     \* a bill handed to the three determineBillStage functions
  stageResult,    \* what each of them returned for stageInput
  clock,          \* NOW() / Date.now() of the notification checker and of the server
  email_subscriptions, \* table email_subscriptions
  outbox,         \* the status-change emails handed to the mail service
  checker,        \* position and local variables of checkNotifications
  statsCache,     \* statsCache of server-enhanced.js
  served          \* history variable: the last response of the enhanced server

vars == <<srcBills, srcPeople, bills, bill_history, bill_actions, sponsorships,
          legislators, sync_metadata, local, runs, faults, observed, pre,
          stageInput, stageResult, clock, email_subscriptions, outbox, checker,
          statsCache, served>>

\* the state of the notification checker and of the enhanced server
webVars == <<clock, email_subscriptions, outbox, checker, statsCache, served>>

tables == <<bills, bill_history, bill_actions, sponsorships, legislators, sync_metadata>>

(***************************************************************************)
(* JavaScript / SQL values                                                 *)
(***************************************************************************)

\* SQL NULL (also what an undefined / null JavaScript parameter is stored as)
NULL == "NULL"

\* true when record r has a property named f (f is not undefined)
Has(r, f) == f \in DOMAIN r

\* Array.prototype.includes
Includes(arr, x) == \E i \in DOMAIN arr : arr[i] = x

\* all sequences over S of length 0..n
SeqsUpTo(S, n) == UNION {[1..k -> S] : k \in 0..n}

\* arr1 is a prefix of arr2
IsPrefix(arr1, arr2) ==
  /\ Len(arr1) <= Len(arr2)
  /\ \A i \in DOMAIN arr1 : arr1[i] = arr2[i]

(***************************************************************************)
(* Strings are sequences of one-character strings, so that toLowerCase     *)
(* and String.prototype.includes are computed, not assumed.                *)
(***************************************************************************)

UpperToLower ==
  [A |-> "a", B |-> "b", C |-> "c", D |-> "d", E |-> "e", F |-> "f", G |-> "g",
   H |-> "h", I |-> "i", J |-> "j", K |-> "k", L |-> "l", M |-> "m", N |-> "n",
   O |-> "o", P |-> "p", Q |-> "q", R |-> "r", S |-> "s", T |-> "t", U |-> "u",
   V |-> "v", W |-> "w", X |-> "x", Y |-> "y", Z |-> "z"]

\* String.prototype.toLowerCase
toLowerCase(s) ==
  [i \in DOMAIN s |-> IF s[i] \in DOMAIN UpperToLower THEN UpperToLower[s[i]] ELSE s[i]]

\* String.prototype.includes
StrIncludes(s, sub) ==
  \E k \in 0..(Len(s) - Len(sub)) : \A i \in 1..Len(sub) : s[k + i] = sub[i]

kw_signed    == <<"s", "i", "g", "n", "e", "d">>
kw_veto      == <<"v", "e", "t", "o">>
kw_enrolled  == <<"e", "n", "r", "o", "l", "l", "e", "d">>
kw_passed    == <<"p", "a", "s", "s", "e", "d">>
kw_committee == <<"c", "o", "m", "m", "i", "t", "t", "e", "e">>

(***************************************************************************)
(* Stage determination                                                     *)
(***************************************************************************)

\* a.classification?.[0]  (<<>> stands for undefined, <<t>> for the tag t)
FirstClassification(a) ==
  IF Has(a, "classification") /\ Len(a.classification) > 0
  THEN <<a.classification[1]>> ELSE <<>>

\* bill.actions.map(a => a.classification?.[0]).filter(Boolean)
RECURSIVE ActionTypes(_)
ActionTypes(actions) ==
  IF actions = <<>> THEN <<>>
  ELSE (IF FirstClassification(Head(actions)) # <<>>
           /\ FirstClassification(Head(actions))[1] # ""
        THEN FirstClassification(Head(actions)) ELSE <<>>)
       \o ActionTypes(Tail(actions))

\* a => a.classification?.includes('passage')
IsPassageAction(a) == Has(a, "classification") /\ Includes(a.classification, "passage")

\* mutant of PassageActions: an action counts only when passage is its first tag
RECURSIVE PassageActions_FirstTagOnly(_)
PassageActions_FirstTagOnly(actions) ==
  IF actions = <<>> THEN <<>>
  ELSE (IF FirstClassification(Head(actions)) = <<"passage">> THEN <<Head(actions)>> ELSE <<>>)
       \o PassageActions_FirstTagOnly(Tail(actions))

\* bill.actions.filter(a => a.classification?.includes('passage'))
RECURSIVE PassageActions(_)
PassageActions(actions) ==
  IF actions = <<>> THEN <<>>
  ELSE (IF IsPassageAction(Head(actions)) THEN <<Head(actions)>> ELSE <<>>)
       \o PassageActions(Tail(actions))

\* !bill.actions || bill.actions.length === 0
NoActions(bill) == ~Has(bill, "actions") \/ Len(bill.actions) = 0

\* mutant of determineBillStage: the veto test placed before the signature test
determineBillStage_VetoFirst(bill) ==
  IF NoActions(bill) THEN "introduced"
  ELSE LET actionTypes == ActionTypes(bill.actions) IN
    IF Includes(actionTypes, "executive-veto") THEN "vetoed"
    ELSE IF Includes(actionTypes, "executive-signature") THEN "signed"
    ELSE IF Includes(actionTypes, "became-law") THEN "became_law"
    ELSE IF Includes(actionTypes, "passage")
      THEN (IF Len(PassageActions(bill.actions)) >= 2 THEN "enrolled" ELSE "passed_chamber")
    ELSE IF Includes(actionTypes, "committee-passage") THEN "committee_approved"
    ELSE IF Includes(actionTypes, "referral-committee") THEN "committee"
    ELSE IF Includes(actionTypes, "reading-3") THEN "floor_calendar"
    ELSE "introduced"

\* mutant of determineBillStage: order of appearance, the latest classified
\* action decides
determineBillStage_LastAction(bill) ==
  IF NoActions(bill) THEN "introduced"
  ELSE LET actionTypes == ActionTypes(bill.actions)
           last == IF actionTypes = <<>> THEN "" ELSE actionTypes[Len(actionTypes)]
       IN
    IF last = "executive-signature" THEN "signed"
    ELSE IF last = "executive-veto" THEN "vetoed"
    ELSE IF last = "became-law" THEN "became_law"
    ELSE IF last = "passage"
      THEN (IF Len(PassageActions(bill.actions)) >= 2 THEN "enrolled" ELSE "passed_chamber")
    ELSE IF last = "committee-passage" THEN "committee_approved"
    ELSE IF last = "referral-committee" THEN "committee"
    ELSE IF last = "reading-3" THEN "floor_calendar"
    ELSE "introduced"

\* mutant of determineBillStage: no final return, undefined when no tag matches
determineBillStage_NoDefault(bill) ==
  IF NoActions(bill) THEN "introduced"
  ELSE LET actionTypes == ActionTypes(bill.actions) IN
    IF Includes(actionTypes, "executive-signature") THEN "signed"
    ELSE IF Includes(actionTypes, "executive-veto") THEN "vetoed"
    ELSE IF Includes(actionTypes, "became-law") THEN "became_law"
    ELSE IF Includes(actionTypes, "passage")
      THEN (IF Len(PassageActions(bill.actions)) >= 2 THEN "enrolled" ELSE "passed_chamber")
    ELSE IF Includes(actionTypes, "committee-passage") THEN "committee_approved"
    ELSE IF Includes(actionTypes, "referral-committee") THEN "committee"
    ELSE IF Includes(actionTypes, "reading-3") THEN "floor_calendar"
    ELSE IF Includes(actionTypes, "introduction") THEN "introduced"
    ELSE "undefined"

\* determineBillStage of database/sync-database.js
determineBillStage(bill) ==
  IF NoActions(bill) THEN "introduced"
  ELSE LET actionTypes == ActionTypes(bill.actions) IN
    IF Includes(actionTypes, "executive-signature") THEN "signed"
    ELSE IF Includes(actionTypes, "executive-veto") THEN "vetoed"
    ELSE IF Includes(actionTypes, "became-law") THEN "became_law"
    ELSE IF Includes(actionTypes, "passage")
      THEN (IF Len(PassageActions(bill.actions)) >= 2 THEN "enrolled" ELSE "passed_chamber")
    ELSE IF Includes(actionTypes, "committee-passage") THEN "committee_approved"
    ELSE IF Includes(actionTypes, "referral-committee") THEN "committee"
    ELSE IF Includes(actionTypes, "reading-3") THEN "floor_calendar"
    ELSE IF Includes(actionTypes, "introduction") THEN "introduced"
    ELSE "introduced"

\* the tail of determineBillStage in the servers: "Default based on latest status"
DescriptionStage(bill) ==
  IF Has(bill, "latest_action_description") /\ Len(bill.latest_action_description) > 0
  THEN LET desc == toLowerCase(bill.latest_action_description) IN
    IF StrIncludes(desc, kw_signed) THEN "signed"
    ELSE IF StrIncludes(desc, kw_veto) THEN "vetoed"
    ELSE IF StrIncludes(desc, kw_enrolled) THEN "enrolled"
    ELSE IF StrIncludes(desc, kw_passed) THEN "passed_chamber"
    ELSE IF StrIncludes(desc, kw_committee) THEN "committee"
    ELSE "introduced"
  ELSE "introduced"

\* determineBillStage of server.js
determineBillStageServer(bill) ==
  IF NoActions(bill) THEN "introduced"
  ELSE LET actionTypes == ActionTypes(bill.actions) IN
    IF Includes(actionTypes, "executive-signature") THEN "signed"
    ELSE IF Includes(actionTypes, "executive-veto") THEN "vetoed"
    ELSE IF Includes(actionTypes, "became-law") THEN "became_law"
    ELSE IF Includes(actionTypes, "passage")
      THEN (IF Len(PassageActions(bill.actions)) >= 2 THEN "enrolled" ELSE "passed_chamber")
    ELSE IF Includes(actionTypes, "committee-passage") THEN "committee_approved"
    ELSE IF Includes(actionTypes, "referral-committee")
            \/ Includes(actionTypes, "committee-referral") THEN "committee"
    ELSE IF Includes(actionTypes, "reading-3") THEN "floor_calendar"
    ELSE IF Includes(actionTypes, "introduction")
            \/ Includes(actionTypes, "filing") THEN "introduced"
    ELSE DescriptionStage(bill)

\* determineBillStage of server-enhanced.js
determineBillStageEnhanced(bill) ==
  IF NoActions(bill) THEN "introduced"
  ELSE LET actionTypes == ActionTypes(bill.actions) IN
    IF Includes(actionTypes, "executive-signature") THEN "signed"
    ELSE IF Includes(actionTypes, "executive-veto") THEN "vetoed"
    ELSE IF Includes(actionTypes, "became-law") THEN "became_law"
    ELSE IF Includes(actionTypes, "passage")
      THEN (IF Len(PassageActions(bill.actions)) >= 2 THEN "enrolled" ELSE "passed_chamber")
    ELSE IF Includes(actionTypes, "committee-passage") THEN "committee_approved"
    ELSE IF Includes(actionTypes, "referral-committee")
            \/ Includes(actionTypes, "committee-referral") THEN "committee"
    ELSE IF Includes(actionTypes, "reading-3") THEN "floor_calendar"
    ELSE IF Includes(actionTypes, "introduction")
            \/ Includes(actionTypes, "filing") THEN "introduced"
    ELSE DescriptionStage(bill)

(***************************************************************************)
(* Inputs of the stage determination functions                             *)
(***************************************************************************)

\* number of actions of a bill handed to determineBillStage
MaxActions == 2

\* classification values of the source (Open States action classifications),
\* with the two spellings the servers accept, and one the code does not know
Tags ==
  {"executive-signature", "executive-veto", "became-law", "passage",
   "committee-passage", "referral-committee", "committee-referral",
   "reading-3", "introduction", "filing", "amendment-introduction"}

\* tags that also occur after the first tag of an action
SecondTags == {"passage", "executive-signature"}

\* an action with the classification array c
Action(c) == [classification |-> c]

\* the actions of the source: no classification property, an empty
\* classification, one tag, or two tags
StageActions ==
  {[description |-> <<"x">>]} \cup {Action(<<>>)}
    \cup {Action(<<t>>) : t \in Tags}
    \cup {Action(<<t, u>>) : t \in Tags, u \in SecondTags}

\* latest_action_description values: "", "Signed", "VETOED", "Enrolled",
\* "Passed", "To Committee", "Filed"
StageDescriptions ==
  { <<>>,
    <<"S", "i", "g", "n", "e", "d">>,
    <<"V", "E", "T", "O", "E", "D">>,
    <<"E", "n", "r", "o", "l", "l", "e", "d">>,
    <<"P", "a", "s", "s", "e", "d">>,
    <<"T", "o", " ", "C", "o", "m", "m", "i", "t", "t", "e", "e">>,
    <<"F", "i", "l", "e", "d">> }

\* bills with no actions property, and bills with up to MaxActions actions
StageInputs ==
  {[latest_action_description |-> d] : d \in StageDescriptions}
    \cup {[actions |-> a, latest_action_description |-> d] :
            a \in SeqsUpTo(StageActions, MaxActions), d \in StageDescriptions}

NoResult == [sync |-> "none", server |-> "none", enhanced |-> "none"]

(***************************************************************************)
(* The source API as the sync runs see it                                  *)
(***************************************************************************)

\* number of sync processes started in a behaviour
MaxRuns == 4

\* while (page <= 10) of syncLegislators
maxPagesLegislators == 10

\* const maxPages = 20 of syncBills
maxPages == 20

Procs == {1, 2}

BillIds == {"b1", "b2"}

\* action lists of bill b1 as its history grows at the source
L1 == <<Action(<<"introduction">>)>>
L2 == L1 \o <<Action(<<"referral-committee">>)>>
L3 == L2 \o <<Action(<<"committee-passage">>)>>
L4 == L3 \o <<Action(<<"passage">>), Action(<<"passage">>)>>

\* L2 and a third reading whose second tag is passage
L2r == L2 \o <<Action(<<"reading-3", "passage">>)>>

\* action lists of bill b2 as its history grows at the source
Lb == <<Action(<<"introduction">>), Action(<<"became-law">>)>>
Lbv == Lb \o <<Action(<<"executive-veto">>)>>
Lbvs == Lbv \o <<Action(<<"executive-signature">>)>>
Lbvsr == Lbvs \o <<Action(<<"referral-committee">>)>>

d_filed == <<"F", "i", "l", "e", "d">>

B1(actions) ==
  [id |-> "b1", title |-> "t1", latest_action_description |-> d_filed, actions |-> actions]

B2(actions) ==
  [id |-> "b2", title |-> "t2", latest_action_description |-> d_filed, actions |-> actions]

\* bill b2 with no actions property and two sponsors, one of them no legislator
B2Sponsored ==
  [id |-> "b2", title |-> "t2", latest_action_description |-> d_filed,
   sponsorships |-> <<[name |-> "Ann", classification |-> "primary"],
                      [name |-> "Zed", classification |-> "cosponsor"]>>]

\* response.data of one page
Page(results) == [results |-> results]
PageOf(results, max_page) == [results |-> results, pagination |-> [max_page |-> max_page]]

\* the states of the /bills source: each is the array of its pages
BillSources ==
  { <<PageOf(<<B1(L1), B2(Lb)>>, 1)>>,
    <<Page(<<B1(L2), B2(Lbv)>>)>>,
    <<PageOf(<<B1(L3)>>, 2), PageOf(<<B2(Lbvs)>>, 2)>>,
    <<PageOf(<<B2(Lbvsr), B1(L4)>>, 2), PageOf(<<>>, 2)>>,
    <<PageOf(<<B2Sponsored>>, 1)>>,
    <<Page(<<B1(L2r), B2(L1)>>)>> }

Ann ==
  [id |-> "p1", name |-> "Ann", current_party |-> "D",
   current_role |-> [chamber |-> "upper", district |-> "1"], email |-> "ann@ok.gov"]

PeopleSources == { <<Page(<<Ann>>)>> }

\* openStatesAPI.get(path, {params: {page}}) -> response.data; a page past the
\* last one has no results
Get(src, page) == IF page \in DOMAIN src THEN src[page] ELSE Page(<<>>)

(***************************************************************************)
(* Storage                                                                 *)
(***************************************************************************)

\* NOW(): the clock of the database advances from one sync run to the next
Now == runs

\* NULL in an integer column
NullId == 0

\* INSERT INTO sync_metadata (sync_type, status) VALUES ... of schema.sql
InitSyncMetadata ==
  [t \in {"bills", "legislators", "actions", "votes"} |->
     [status |-> "pending", records_synced |-> NullId, error_message |-> NULL,
      last_sync_at |-> NullId, last_success_at |-> NullId]]

\* position of the bills / legislators row with this openstates_id, 0 if none
\* (openstates_id is UNIQUE)
RowOf(tbl, openstates_id) ==
  IF \E k \in DOMAIN tbl : tbl[k].openstates_id = openstates_id
  THEN CHOOSE k \in DOMAIN tbl : tbl[k].openstates_id = openstates_id
  ELSE 0

\* checkNotifications before it is started: no rows selected yet
InitChecker == [pc |-> "idle", subscriptions |-> <<>>, idx |-> 0, notificationsSent |-> 0]

\* NULL in a timestamp column, null in a Date.now() field
NullTime == 0

\* let statsCache = { summary: null, pipeline: null, allBills: null, lastUpdate: null }
\* (<<>> stands for null, <<v>> for the value v)
EmptyCache == [summary |-> <<>>, pipeline |-> <<>>, allBills |-> <<>>, lastUpdate |-> NullTime]

\* no response served yet
NoResponse == [endpoint |-> NULL]

\* the notification checker and the enhanced server before they have run
InitWeb ==
  /\ clock = 1
  /\ email_subscriptions = <<>>
  /\ outbox = <<>>
  /\ checker = InitChecker
  /\ statsCache = EmptyCache
  /\ served = NoResponse

InitLocal ==
  [pc |-> "idle", page |-> 0, totalSynced |-> 0, response |-> Page(<<>>), idx |-> 0,
   stage |-> NULL, billId |-> NullId, oldStage |-> NULL, i |-> 0, j |-> 0,
   legislatorId |-> NullId, exitCode |-> 0, error |-> NULL, poolEnded |-> FALSE,
   thrownBy |-> NULL, recorded |-> FALSE, requests |-> <<>>]

NoPre ==
  [bills |-> <<>>, bill_history |-> <<>>, bill_actions |-> <<>>, sponsorships |-> <<>>,
   legislators |-> <<>>, sync_metadata |-> InitSyncMetadata,
   observed |-> [b \in BillIds |-> <<>>], src |-> <<>>, prevSrc |-> <<>>]

InitTables ==
  /\ bills = <<>>
  /\ bill_history = <<>>
  /\ bill_actions = <<>>
  /\ sponsorships = <<>>
  /\ legislators = <<>>
  /\ sync_metadata = InitSyncMetadata

Init ==
  /\ srcBills \in BillSources
  /\ srcPeople \in PeopleSources
  /\ InitTables
  /\ local = [p \in Procs |-> InitLocal]
  /\ runs = 0
  /\ faults = 0
  /\ observed = [b \in BillIds |-> <<>>]
  /\ pre = NoPre
  /\ stageInput = [latest_action_description |-> <<>>]
  /\ stageResult = NoResult
  /\ InitWeb

(***************************************************************************)
(* The SQL statements of the sync, as functions of the table they write    *)
(***************************************************************************)

\* a parameter read from an optional property: undefined is sent as NULL
Opt(r, f) == IF Has(r, f) THEN r[f] ELSE NULL

\* legislator.email || null: a missing or empty value is stored as NULL
OrNull(r, f) == IF Has(r, f) /\ r[f] # "" THEN r[f] ELSE NULL

\* legislator.party?.[0]?.name || legislator.current_party
PartyOf(legislator) ==
  IF Has(legislator, "party") /\ Len(legislator.party) > 0
     /\ Has(legislator.party[1], "name")
  THEN legislator.party[1].name
  ELSE Opt(legislator, "current_party")

\* mutant of UpsertLegislator: ON CONFLICT (openstates_id) DO NOTHING
UpsertLegislator_DoNothing(tbl, legislator, now) ==
  LET role == IF Has(legislator, "current_role") THEN legislator.current_role
              ELSE [none |-> NULL]
  IN IF RowOf(tbl, legislator.id) = 0
     THEN Append(tbl, [id |-> Len(tbl) + 1,
                       openstates_id |-> legislator.id,
                       name |-> legislator.name,
                       party |-> PartyOf(legislator),
                       chamber |-> Opt(role, "chamber"),
                       district |-> Opt(role, "district"),
                       image_url |-> Opt(legislator, "image"),
                       email |-> OrNull(legislator, "email"),
                       phone |-> OrNull(legislator, "phone"),
                       updated_at |-> now])
     ELSE tbl

\* mutant of UpsertLegislator: DO UPDATE SET also email and phone
UpsertLegislator_AllColumns(tbl, legislator, now) ==
  LET k == RowOf(tbl, legislator.id)
      role == IF Has(legislator, "current_role") THEN legislator.current_role
              ELSE [none |-> NULL]
      row == [id |-> Len(tbl) + 1,
              openstates_id |-> legislator.id,
              name |-> legislator.name,
              party |-> PartyOf(legislator),
              chamber |-> Opt(role, "chamber"),
              district |-> Opt(role, "district"),
              image_url |-> Opt(legislator, "image"),
              email |-> OrNull(legislator, "email"),
              phone |-> OrNull(legislator, "phone"),
              updated_at |-> now]
  IN IF k = 0 THEN Append(tbl, row) ELSE [tbl EXCEPT ![k] = [row EXCEPT !.id = tbl[k].id]]

\* INSERT INTO legislators ... ON CONFLICT (openstates_id) DO UPDATE SET name,
\* party, chamber, district, updated_at = NOW() (created_at is not modelled)
UpsertLegislator(tbl, legislator, now) ==
  LET k == RowOf(tbl, legislator.id)
      role == IF Has(legislator, "current_role") THEN legislator.current_role
              ELSE [none |-> NULL]
  IN IF k = 0
     THEN Append(tbl, [id |-> Len(tbl) + 1,
                       openstates_id |-> legislator.id,
                       name |-> legislator.name,
                       party |-> PartyOf(legislator),
                       chamber |-> Opt(role, "chamber"),
                       district |-> Opt(role, "district"),
                       image_url |-> Opt(legislator, "image"),
                       email |-> OrNull(legislator, "email"),
                       phone |-> OrNull(legislator, "phone"),
                       updated_at |-> now])
     ELSE [tbl EXCEPT ![k].name = legislator.name,
                      ![k].party = PartyOf(legislator),
                      ![k].chamber = Opt(role, "chamber"),
                      ![k].district = Opt(role, "district"),
                      ![k].updated_at = now]

\* mutant of UpsertBill: a plain INSERT, with no unique openstates_id to stop it
UpsertBill_AlwaysInsert(tbl, bill, stage) ==
  Append(tbl, [id |-> Len(tbl) + 1,
               openstates_id |-> bill.id,
               title |-> bill.title,
               current_status |-> Opt(bill, "latest_action_description"),
               stage |-> stage])

\* mutant of UpsertBill: DO UPDATE SET without stage = EXCLUDED.stage
UpsertBill_KeepStage(tbl, bill, stage) ==
  LET k == RowOf(tbl, bill.id)
  IN IF k = 0
     THEN Append(tbl, [id |-> Len(tbl) + 1,
                       openstates_id |-> bill.id,
                       title |-> bill.title,
                       current_status |-> Opt(bill, "latest_action_description"),
                       stage |-> stage])
     ELSE [tbl EXCEPT ![k].title = bill.title,
                      ![k].current_status = Opt(bill, "latest_action_description")]

\* INSERT INTO bills ... ON CONFLICT (openstates_id) DO UPDATE SET title,
\* current_status, stage, latest_action_* (the columns kept are those the sync
\* reads back or the claims name)
UpsertBill(tbl, bill, stage) ==
  LET k == RowOf(tbl, bill.id)
  IN IF k = 0
     THEN Append(tbl, [id |-> Len(tbl) + 1,
                       openstates_id |-> bill.id,
                       title |-> bill.title,
                       current_status |-> Opt(bill, "latest_action_description"),
                       stage |-> stage])
     ELSE [tbl EXCEPT ![k].title = bill.title,
                      ![k].current_status = Opt(bill, "latest_action_description"),
                      ![k].stage = stage]

\* mutant of OldStage: the subquery reads the row as the statement leaves it
OldStage_AfterWrite(tbl, bill, stage) == stage

\* RETURNING ... (SELECT stage FROM bills WHERE openstates_id = $1) as old_stage:
\* the subquery reads the table as it was when the statement started, so it
\* gives the stage before this write, and NULL when the row is new
OldStage(tbl, bill, stage) ==
  IF RowOf(tbl, bill.id) = 0 THEN NULL ELSE tbl[RowOf(tbl, bill.id)].stage

\* mutant of HistoryNeeded: a first observation is recorded too
HistoryNeeded_AlsoFirst(oldStage, stage) == oldStage # stage

\* mutant of HistoryNeeded: recorded whenever the bill was stored before
HistoryNeeded_Always(oldStage, stage) == oldStage # NULL

\* if (oldStage && oldStage !== stage)
HistoryNeeded(oldStage, stage) == oldStage # NULL /\ oldStage # "" /\ oldStage # stage

\* mutant of InsertHistory: the two stage parameters are bound the other way round
InsertHistory_Swapped(tbl, billId, stage, status, oldStage) ==
  Append(tbl, [id |-> Len(tbl) + 1, bill_id |-> billId, stage |-> oldStage,
               status |-> status, previous_stage |-> stage])

\* INSERT INTO bill_history (bill_id, stage, status, previous_stage)
InsertHistory(tbl, billId, stage, status, oldStage) ==
  Append(tbl, [id |-> Len(tbl) + 1, bill_id |-> billId, stage |-> stage,
               status |-> status, previous_stage |-> oldStage])

\* the constraints of a table that ON CONFLICT DO NOTHING can hit: bill_actions
\* and sponsorships have the primary key id and no other unique constraint
PrimaryKeyConflict(tbl, row) == \E k \in DOMAIN tbl : tbl[k].id = row.id

\* INSERT INTO bill_actions (...) VALUES (...) ON CONFLICT DO NOTHING
\* (date, description and chamber are not modelled)
InsertAction(tbl, billId, action, i) ==
  LET row == [id |-> Len(tbl) + 1, bill_id |-> billId,
              classification |-> IF FirstClassification(action) # <<>>
                                    /\ FirstClassification(action)[1] # ""
                                 THEN FirstClassification(action)[1] ELSE NULL,
              order_index |-> i]
  IN IF PrimaryKeyConflict(tbl, row) THEN tbl ELSE Append(tbl, row)

\* mutant of LegislatorIds: SELECT id FROM legislators LIMIT 1, whatever the name
LegislatorIds_AnyName(tbl, name) ==
  IF tbl # <<>> THEN {tbl[k].id : k \in DOMAIN tbl} ELSE {NullId}

\* SELECT id FROM legislators WHERE name = $1 LIMIT 1: the ids it can return
LegislatorIds(tbl, name) ==
  IF \E k \in DOMAIN tbl : tbl[k].name = name
  THEN {tbl[k].id : k \in {n \in DOMAIN tbl : tbl[n].name = name}}
  ELSE {NullId}

\* INSERT INTO sponsorships (...) VALUES (...) ON CONFLICT DO NOTHING
\* (entity_type and primary_sponsor are not modelled)
InsertSponsorship(tbl, billId, legislatorId, sponsor) ==
  LET row == [id |-> Len(tbl) + 1, bill_id |-> billId, legislator_id |-> legislatorId,
              name |-> sponsor.name, classification |-> Opt(sponsor, "classification")]
  IN IF PrimaryKeyConflict(tbl, row) THEN tbl ELSE Append(tbl, row)

\* mutant of MetadataSuccess: records_synced is not written
MetadataSuccess_NoCount(tbl, sync_type, totalSynced) ==
  [tbl EXCEPT ![sync_type].status = "success",
              ![sync_type].last_sync_at = Now, ![sync_type].last_success_at = Now]

\* UPDATE sync_metadata SET last_sync_at = NOW(), last_success_at = NOW(),
\* status = 'success', records_synced = $1 WHERE sync_type = ...
MetadataSuccess(tbl, sync_type, totalSynced) ==
  [tbl EXCEPT ![sync_type].status = "success", ![sync_type].records_synced = totalSynced,
              ![sync_type].last_sync_at = Now, ![sync_type].last_success_at = Now]

(***************************************************************************)
(* Control flow of runSync between two awaits, on the locals l of a process *)
(***************************************************************************)

\* for (const bill of bills)
CurrentBill(l) == l.response.results[l.idx]

\* for (const legislator of legislators)
CurrentLegislator(l) == l.response.results[l.idx]

\* page >= response.data.pagination.max_page: a comparison with undefined is false
AtMaxPage(page, pagination) == Has(pagination, "max_page") /\ page >= pagination.max_page

\* mutant of PageDone: a page without pagination metadata does not end the loop
PageDone_NeedsPagination(l, cap, fetch, meta) ==
  LET l2 == [l EXCEPT !.totalSynced = @ + Len(l.response.results)]
  IN IF Has(l.response, "pagination") /\ AtMaxPage(l.page, l.response.pagination)
     THEN [l2 EXCEPT !.pc = meta]
     ELSE IF l.page + 1 <= cap THEN [l2 EXCEPT !.page = @ + 1, !.pc = fetch]
     ELSE [l2 EXCEPT !.page = @ + 1, !.pc = meta]

\* end of a page: totalSynced += length; break when there is no pagination or
\* page >= max_page; else page++ and the while test against the page cap
PageDone(l, cap, fetch, meta) ==
  LET l2 == [l EXCEPT !.totalSynced = @ + Len(l.response.results)]
  IN IF ~Has(l.response, "pagination") THEN [l2 EXCEPT !.pc = meta]
     ELSE IF AtMaxPage(l.page, l.response.pagination) THEN [l2 EXCEPT !.pc = meta]
     ELSE IF l.page + 1 <= cap THEN [l2 EXCEPT !.page = @ + 1, !.pc = fetch]
     ELSE [l2 EXCEPT !.page = @ + 1, !.pc = meta]

\* end of the body of for (const bill of bills)
BillDone(l) ==
  IF l.idx < Len(l.response.results) THEN [l EXCEPT !.idx = @ + 1, !.pc = "B_upsert"]
  ELSE PageDone(l, maxPages, "B_fetch", "B_meta")

\* if (bill.sponsorships && bill.sponsorships.length > 0)
AfterActions(l) ==
  IF Has(CurrentBill(l), "sponsorships") /\ Len(CurrentBill(l).sponsorships) > 0
  THEN [l EXCEPT !.pc = "B_sponsor_lookup", !.j = 1]
  ELSE BillDone(l)

\* if (bill.actions && bill.actions.length > 0)
AfterHistory(l) ==
  IF Has(CurrentBill(l), "actions") /\ Len(CurrentBill(l).actions) > 0
  THEN [l EXCEPT !.pc = "B_action", !.i = 0]
  ELSE AfterActions(l)

\* after the bill upsert has returned billId and oldStage
AfterUpsert(l) ==
  IF HistoryNeeded(l.oldStage, l.stage) THEN [l EXCEPT !.pc = "B_history"]
  ELSE AfterHistory(l)

(***************************************************************************)
(* The steps of a sync process p: one per awaited call                     *)
(***************************************************************************)

Stopped(p) == local[p].pc \in {"idle", "exited"}

\* history: the page requests a process has issued, openStatesAPI.get(path, {page})
Request(l, path) == Append(l.requests, [path |-> path, page |-> l.page])

\* history: the tables and the source as a starting run finds them
Snapshot ==
  [bills |-> bills, bill_history |-> bill_history,
   bill_actions |-> bill_actions, sponsorships |-> sponsorships,
   legislators |-> legislators, sync_metadata |-> sync_metadata,
   observed |-> observed, src |-> <<srcBills>>, prevSrc |-> pre.src]

\* a sync process starts: runSync up to the first fetch of syncLegislators
\* (the connection test SELECT NOW() succeeds)
RunSync(p) ==
  /\ Stopped(p)
  /\ runs < MaxRuns
  /\ runs' = runs + 1
  /\ local' = [local EXCEPT ![p] = [InitLocal EXCEPT !.pc = "L_fetch", !.page = 1]]
  /\ pre' = Snapshot
  /\ UNCHANGED <<faults, srcBills, srcPeople, tables, observed, stageInput, stageResult, webVars>>

\* openStatesAPI.get('/people', page) and the empty-page test
L_Fetch(p) ==
  /\ local[p].pc = "L_fetch"
  /\ LET data == Get(srcPeople, local[p].page)
     IN local' = [local EXCEPT ![p] =
          IF Len(data.results) = 0
          THEN [@ EXCEPT !.response = data, !.pc = "L_meta",
                         !.requests = Request(local[p], "/people")]
          ELSE [@ EXCEPT !.response = data, !.pc = "L_upsert", !.idx = 1,
                         !.requests = Request(local[p], "/people")]]
  /\ UNCHANGED <<faults, srcBills, srcPeople, tables, runs, observed, pre, stageInput, stageResult, webVars>>

\* the upsert of one legislator of the page
L_Upsert(p) ==
  /\ local[p].pc = "L_upsert"
  /\ legislators' = UpsertLegislator(legislators, CurrentLegislator(local[p]), Now)
  /\ local' = [local EXCEPT ![p] =
       IF @.idx < Len(@.response.results) THEN [@ EXCEPT !.idx = @ + 1]
       ELSE PageDone(@, maxPagesLegislators, "L_fetch", "L_meta")]
  /\ UNCHANGED <<faults, srcBills, srcPeople, bills, bill_history, bill_actions, sponsorships,
                 sync_metadata, runs, observed, pre, stageInput, stageResult,
                 webVars>>

\* the success UPDATE of sync_metadata; syncLegislators returns, syncBills starts
L_Meta(p) ==
  /\ local[p].pc = "L_meta"
  /\ sync_metadata' = MetadataSuccess(sync_metadata, "legislators", local[p].totalSynced)
  /\ local' = [local EXCEPT ![p] =
       [@ EXCEPT !.pc = "B_fetch", !.page = 1, !.totalSynced = 0,
                 !.response = Page(<<>>), !.idx = 0]]
  /\ UNCHANGED <<faults, srcBills, srcPeople, bills, bill_history, bill_actions, sponsorships,
                 legislators, runs, observed, pre, stageInput, stageResult,
                 webVars>>

\* openStatesAPI.get('/bills', page) and the empty-page test
B_Fetch(p) ==
  /\ local[p].pc = "B_fetch"
  /\ LET data == Get(srcBills, local[p].page)
     IN local' = [local EXCEPT ![p] =
          IF Len(data.results) = 0
          THEN [@ EXCEPT !.response = data, !.pc = "B_meta",
                         !.requests = Request(local[p], "/bills")]
          ELSE [@ EXCEPT !.response = data, !.pc = "B_upsert", !.idx = 1,
                         !.requests = Request(local[p], "/bills")]]
  /\ UNCHANGED <<faults, srcBills, srcPeople, tables, runs, observed, pre, stageInput, stageResult, webVars>>

\* determineBillStage(bill) and the bill upsert with its RETURNING row
B_Upsert(p) ==
  /\ local[p].pc = "B_upsert"
  /\ LET bill == CurrentBill(local[p])
         stage == determineBillStage(bill)
     IN /\ bills' = UpsertBill(bills, bill, stage)
        /\ observed' = [observed EXCEPT ![bill.id] = Append(@, bill)]
        /\ local' = [local EXCEPT ![p] =
             AfterUpsert([@ EXCEPT !.stage = stage,
                                   !.billId = bills'[RowOf(bills', bill.id)].id,
                                   !.oldStage = OldStage(bills, bill, stage)])]
  /\ UNCHANGED <<faults, srcBills, srcPeople, bill_history, bill_actions, sponsorships, legislators,
                 sync_metadata, runs, pre, stageInput, stageResult,
                 webVars>>

\* the bill_history insert of a stage change
B_History(p) ==
  /\ local[p].pc = "B_history"
  /\ bill_history' = InsertHistory(bill_history, local[p].billId, local[p].stage,
                                   Opt(CurrentBill(local[p]), "latest_action_description"),
                                   local[p].oldStage)
  /\ local' = [local EXCEPT ![p] = AfterHistory(@)]
  /\ UNCHANGED <<faults, srcBills, srcPeople, bills, bill_actions, sponsorships, legislators,
                 sync_metadata, runs, observed, pre, stageInput, stageResult,
                 webVars>>

\* the bill_actions insert of bill.actions[i]
B_Action(p) ==
  /\ local[p].pc = "B_action"
  /\ bill_actions' = InsertAction(bill_actions, local[p].billId,
                                  CurrentBill(local[p]).actions[local[p].i + 1], local[p].i)
  /\ local' = [local EXCEPT ![p] =
       IF @.i + 1 < Len(CurrentBill(@).actions) THEN [@ EXCEPT !.i = @ + 1]
       ELSE AfterActions([@ EXCEPT !.i = @ + 1])]
  /\ UNCHANGED <<faults, srcBills, srcPeople, bills, bill_history, sponsorships, legislators,
                 sync_metadata, runs, observed, pre, stageInput, stageResult,
                 webVars>>

\* the legislator lookup by the sponsor's name
B_SponsorLookup(p) ==
  /\ local[p].pc = "B_sponsor_lookup"
  /\ \E id \in LegislatorIds(legislators, CurrentBill(local[p]).sponsorships[local[p].j].name) :
       local' = [local EXCEPT ![p] = [@ EXCEPT !.legislatorId = id, !.pc = "B_sponsor_insert"]]
  /\ UNCHANGED <<faults, srcBills, srcPeople, tables, runs, observed, pre, stageInput, stageResult, webVars>>

\* the sponsorships insert
B_SponsorInsert(p) ==
  /\ local[p].pc = "B_sponsor_insert"
  /\ sponsorships' = InsertSponsorship(sponsorships, local[p].billId, local[p].legislatorId,
                                       CurrentBill(local[p]).sponsorships[local[p].j])
  /\ local' = [local EXCEPT ![p] =
       IF @.j < Len(CurrentBill(@).sponsorships)
       THEN [@ EXCEPT !.j = @ + 1, !.pc = "B_sponsor_lookup"]
       ELSE BillDone(@)]
  /\ UNCHANGED <<faults, srcBills, srcPeople, bills, bill_history, bill_actions, legislators,
                 sync_metadata, runs, observed, pre, stageInput, stageResult,
                 webVars>>

\* the success UPDATE of sync_metadata; syncBills returns
B_Meta(p) ==
  /\ local[p].pc = "B_meta"
  /\ sync_metadata' = MetadataSuccess(sync_metadata, "bills", local[p].totalSynced)
  /\ local' = [local EXCEPT ![p] = [@ EXCEPT !.pc = "end"]]
  /\ UNCHANGED <<faults, srcBills, srcPeople, bills, bill_history, bill_actions, sponsorships,
                 legislators, runs, observed, pre, stageInput, stageResult,
                 webVars>>

\* finally: pool.end(); the process exits
PoolEnd(p) ==
  /\ local[p].pc = "end"
  /\ local' = [local EXCEPT ![p] =
       [InitLocal EXCEPT !.pc = "exited", !.poolEnded = TRUE, !.exitCode = 0,
                         !.error = local[p].error, !.thrownBy = local[p].thrownBy]]
  /\ UNCHANGED <<faults, srcBills, srcPeople, tables, runs, observed, pre, stageInput, stageResult, webVars>>

\* the source publishes another state of the bills, between two sync runs
SourceChange ==
  /\ \A p \in Procs : Stopped(p)
  /\ runs < MaxRuns
  /\ srcBills' \in BillSources \ {srcBills}
  /\ UNCHANGED <<faults, srcPeople, tables, local, runs, observed, pre, stageInput, stageResult, webVars>>

Step(p) ==
  \/ RunSync(p)
  \/ L_Fetch(p)
  \/ L_Upsert(p)
  \/ L_Meta(p)
  \/ B_Fetch(p)
  \/ B_Upsert(p)
  \/ B_History(p)
  \/ B_Action(p)
  \/ B_SponsorLookup(p)
  \/ B_SponsorInsert(p)
  \/ B_Meta(p)
  \/ PoolEnd(p)

\* sync runs that do not overlap: one process at a time
Next == Step(1) \/ SourceChange

Spec == Init /\ [][Next]_vars

(***************************************************************************)
(* Properties of Bill Sync                                                 *)
(***************************************************************************)

\* bills.stage of the bill with this external id, NULL when it is not stored
StoredStage(tbl, b) ==
  IF \E k \in DOMAIN tbl : tbl[k].openstates_id = b
  THEN (CHOOSE r \in {tbl[k] : k \in DOMAIN tbl} : r.openstates_id = b).stage
  ELSE NULL

\* bills.id of the bill with this external id, NullId when it is not stored
StoredId(tbl, b) ==
  IF \E k \in DOMAIN tbl : tbl[k].openstates_id = b
  THEN (CHOOSE r \in {tbl[k] : k \in DOMAIN tbl} : r.openstates_id = b).id
  ELSE NullId

\* the bill_history rows of bill b that the current run has inserted
NewHistory(b) ==
  {k \in (Len(pre.bill_history) + 1)..Len(bill_history) :
     bill_history[k].bill_id = StoredId(bills, b)}

\* the current run has written bill b
Processed(b) == Len(observed[b]) > Len(pre.observed[b])

\* the source record bill b was last written from
LastObserved(b) == observed[b][Len(observed[b])]

ActionsOf(bill) == IF Has(bill, "actions") THEN bill.actions ELSE <<>>

\* syncBills of process 1 has returned
BillSyncReturned == local[1].pc = "end"

\* C1: when a bill stored with a non-null stage S is written by a run that
\* computes a different stage S2, the run inserts exactly one bill_history row
\* for it, with previous_stage = S and stage = S2, and leaves bills.stage = S2.
C1_StageChangeRecorded ==
  BillSyncReturned =>
    \A b \in BillIds :
      LET S == StoredStage(pre.bills, b)
          S2 == determineBillStage(LastObserved(b))
      IN (Processed(b) /\ S # NULL /\ S2 # S) =>
           /\ Cardinality(NewHistory(b)) = 1
           /\ \A k \in NewHistory(b) :
                bill_history[k].previous_stage = S /\ bill_history[k].stage = S2
           /\ StoredStage(bills, b) = S2

\* a run has moved a stored bill from committee to committee_approved
C1_Witness ==
  /\ BillSyncReturned
  /\ Processed("b1")
  /\ StoredStage(pre.bills, "b1") = "committee"
  /\ StoredStage(bills, "b1") = "committee_approved"
  /\ Cardinality(NewHistory("b1")) = 1

\* the run in progress (or the last one) started from the same source state as
\* the run before it
SourceUnchanged == pre.prevSrc # <<>> /\ pre.prevSrc = pre.src

\* C2: a run over the same source data as the run before it inserts no
\* bill_history row.
C2_SecondRunNoHistory == SourceUnchanged => bill_history = pre.bill_history

\* a second run over unchanged bills that earlier runs had moved through stages
C2_Witness ==
  /\ BillSyncReturned
  /\ SourceUnchanged
  /\ \E b \in BillIds : Processed(b) /\ StoredStage(bills, b) # "introduced"
  /\ bill_history # <<>>

\* C3: every bill_history row has a non-null previous_stage that differs from
\* its stage; a run that writes a bill for the first time, or computes the
\* stage already stored, inserts no bill_history row for it.
C3_HistoryOnlyOnChange ==
  /\ \A k \in DOMAIN bill_history :
       /\ bill_history[k].previous_stage # NULL
       /\ bill_history[k].previous_stage # bill_history[k].stage
  /\ BillSyncReturned =>
       \A b \in BillIds :
         (Processed(b)
            /\ (StoredStage(pre.bills, b) = NULL
                  \/ StoredStage(pre.bills, b) = determineBillStage(LastObserved(b))))
           => NewHistory(b) = {}

\* a run has written one bill for the first time and another, stored before,
\* from a changed record that gives the stage already stored
C3_Witness ==
  /\ BillSyncReturned
  /\ \E b \in BillIds :
       Processed(b) /\ StoredStage(pre.bills, b) = NULL /\ NewHistory(b) = {}
  /\ \E b \in BillIds :
       /\ Processed(b) /\ Len(observed[b]) >= 2
       /\ observed[b][Len(observed[b]) - 1] # LastObserved(b)
       /\ StoredStage(pre.bills, b) = determineBillStage(LastObserved(b))
       /\ NewHistory(b) = {}

\* C4: bill_actions holds at most one row per (bill, position index).
C4_OneRowPerPosition ==
  \A k1, k2 \in DOMAIN bill_actions :
    (bill_actions[k1].bill_id = bill_actions[k2].bill_id
       /\ bill_actions[k1].order_index = bill_actions[k2].order_index) => k1 = k2

TerminalStages == {"signed", "vetoed", "became_law", "dead"}

\* this step writes bill b from an action list that extends the one it was
\* last written from
ExtendingWrite(b) ==
  /\ observed[b] # <<>>
  /\ observed'[b] # observed[b]
  /\ IsPrefix(ActionsOf(observed[b][Len(observed[b])]),
              ActionsOf(observed'[b][Len(observed'[b])]))

\* C9 as stated: a stored terminal stage is not changed by a later write from
\* an extended action list.
C9_TerminalAbsorbing ==
  [][\A b \in BillIds :
       (StoredStage(bills, b) \in TerminalStages /\ ExtendingWrite(b))
         => StoredStage(bills', b) = StoredStage(bills, b)]_vars

\* the stages a stored terminal stage can be followed by
TerminalSuccessors(stage) ==
  IF stage = "signed" THEN {"signed"}
  ELSE IF stage = "vetoed" THEN {"vetoed", "signed"}
  ELSE IF stage = "became_law" THEN {"became_law", "vetoed", "signed"}
  ELSE {}

\* C9 amended: under writes from extended action lists signed is absorbing,
\* vetoed changes only to signed, became_law only to vetoed or signed; dead is
\* never stored.
C9_TerminalOnlyUpwards ==
  [][\A b \in BillIds :
       (StoredStage(bills, b) \in TerminalStages /\ ExtendingWrite(b))
         => StoredStage(bills', b) \in TerminalSuccessors(StoredStage(bills, b))]_vars

\* a became_law bill was written from its action list extended by a veto, then
\* by a signature, then by a committee referral
C9_Witness ==
  /\ Len(observed["b2"]) >= 4
  /\ LET n == Len(observed["b2"]) IN
       /\ ActionsOf(observed["b2"][n - 3]) = Lb
       /\ ActionsOf(observed["b2"][n - 2]) = Lbv
       /\ ActionsOf(observed["b2"][n - 1]) = Lbvs
       /\ ActionsOf(observed["b2"][n]) = Lbvsr
  /\ StoredStage(pre.bills, "b2") = "signed"
  /\ StoredStage(bills, "b2") = "signed"
  /\ \E k \in DOMAIN bill_history :
       bill_history[k].previous_stage = "became_law" /\ bill_history[k].stage = "vetoed"
  /\ \E k \in DOMAIN bill_history :
       bill_history[k].previous_stage = "vetoed" /\ bill_history[k].stage = "signed"

\* the action lists bill b was written from, in order
Trail(b) == [k \in DOMAIN observed[b] |-> ActionsOf(observed[b][k])]

\* <<previous_stage, stage>> of the bill_history rows of bill b, in insertion order
RECURSIVE HistoryPairs(_, _)
HistoryPairs(tbl, billId) ==
  IF tbl = <<>> THEN <<>>
  ELSE (IF Head(tbl).bill_id = billId
        THEN << <<Head(tbl).previous_stage, Head(tbl).stage>> >> ELSE <<>>)
       \o HistoryPairs(Tail(tbl), billId)

\* C10: four successive syncs of a bill whose action list grows from
\* [introduction] by a referral-committee action, a committee-passage action
\* and two passage actions give introduced with no history row, committee with
\* one row (introduced -> committee), committee_approved with one more row,
\* and enrolled.
C10_Lifecycle ==
  local[1].pc # "B_history" =>
    LET stage == StoredStage(bills, "b1")
        rows == HistoryPairs(bill_history, StoredId(bills, "b1"))
    IN /\ Trail("b1") = <<L1>> => (stage = "introduced" /\ rows = <<>>)
       /\ Trail("b1") = <<L1, L2>> =>
            (stage = "committee" /\ rows = << <<"introduced", "committee">> >>)
       /\ Trail("b1") = <<L1, L2, L3>> =>
            (stage = "committee_approved"
               /\ rows = << <<"introduced", "committee">>,
                            <<"committee", "committee_approved">> >>)
       /\ Trail("b1") = <<L1, L2, L3, L4>> => stage = "enrolled"

\* the fourth sync of the scenario has returned
C10_Witness ==
  /\ BillSyncReturned
  /\ Trail("b1") = <<L1, L2, L3, L4>>
  /\ StoredStage(bills, "b1") = "enrolled"
  /\ Len(HistoryPairs(bill_history, StoredId(bills, "b1"))) = 3

(***************************************************************************)
(* The stage determination functions applied to every bounded input        *)
(***************************************************************************)

InitStage ==
  /\ srcBills = <<>>
  /\ srcPeople = <<>>
  /\ InitTables
  /\ local = [p \in Procs |-> InitLocal]
  /\ runs = 0
  /\ faults = 0
  /\ observed = [b \in BillIds |-> <<>>]
  /\ pre = NoPre
  /\ stageInput \in StageInputs
  /\ stageResult = NoResult
  /\ InitWeb

Classify ==
  /\ stageResult = NoResult
  /\ stageResult' = [sync |-> determineBillStage(stageInput),
                     server |-> determineBillStageServer(stageInput),
                     enhanced |-> determineBillStageEnhanced(stageInput)]
  /\ UNCHANGED <<faults, srcBills, srcPeople, tables, local, runs, observed, pre, stageInput, webVars>>

NextStage == Classify

SpecStage == InitStage /\ [][NextStage]_vars

(***************************************************************************)
(* Properties of the stage determination                                   *)
(***************************************************************************)

Classified == stageResult # NoResult

StageInputActions == IF Has(stageInput, "actions") THEN stageInput.actions ELSE <<>>

\* the action carries tag t, at any position of its classification
HasTag(a, t) == Has(a, "classification") /\ Includes(a.classification, t)

\* tag t is the first classification of the action
HasFirstTag(a, t) == Has(a, "classification") /\ Len(a.classification) > 0
                     /\ a.classification[1] = t

TagCount(actions, t) == Cardinality({i \in DOMAIN actions : HasTag(actions[i], t)})

\* C5 as stated: whenever some action carries an executive-signature tag (at any
\* position of its classification), the stage is signed.
C5_SignedWheneverTagged ==
  (Classified /\ \E i \in DOMAIN StageInputActions :
                    HasTag(StageInputActions[i], "executive-signature"))
    => (stageResult.sync = "signed" /\ stageResult.server = "signed")

\* C5 amended: whenever executive-signature is the first classification of some
\* action, the stage is signed, whatever the other tags of any action are.
C5_SignedWheneverFirstTag ==
  (Classified /\ \E i \in DOMAIN StageInputActions :
                    HasFirstTag(StageInputActions[i], "executive-signature"))
    => (stageResult.sync = "signed" /\ stageResult.server = "signed")

\* a signature-first action next to an action whose first tag is a veto
C5_Witness ==
  /\ Classified
  /\ \E i \in DOMAIN StageInputActions :
       HasFirstTag(StageInputActions[i], "executive-signature")
  /\ \E i \in DOMAIN StageInputActions :
       HasFirstTag(StageInputActions[i], "executive-veto")
  /\ stageResult.sync = "signed"

NoTerminalTag ==
  \A i \in DOMAIN StageInputActions :
    /\ ~HasTag(StageInputActions[i], "executive-signature")
    /\ ~HasTag(StageInputActions[i], "executive-veto")
    /\ ~HasTag(StageInputActions[i], "became-law")

PassageCounted ==
  /\ TagCount(StageInputActions, "passage") = 1 => stageResult.sync = "passed_chamber"
  /\ TagCount(StageInputActions, "passage") >= 2 => stageResult.sync = "enrolled"

\* C6 as stated: with no signature, veto or became-law tag on any action, one
\* passage-tagged action gives passed_chamber and two or more give enrolled.
C6_PassageCounting == (Classified /\ NoTerminalTag) => PassageCounted

\* C6 amended: the same, provided passage is the first classification of at
\* least one action.
C6_PassageCountingFirstTag ==
  (Classified /\ NoTerminalTag
     /\ \E i \in DOMAIN StageInputActions : HasFirstTag(StageInputActions[i], "passage"))
    => PassageCounted

\* two passage-tagged actions, only one of them with passage as its first tag
C6_Witness ==
  /\ Classified /\ NoTerminalTag
  /\ Cardinality({i \in DOMAIN StageInputActions :
                    HasFirstTag(StageInputActions[i], "passage")}) = 1
  /\ TagCount(StageInputActions, "passage") = 2
  /\ stageResult.sync = "enrolled"

\* the fixed priority order of the classifier: tags, and the stage they give
StagePriority ==
  << <<{"executive-signature"}, "signed">>,
     <<{"executive-veto"}, "vetoed">>,
     <<{"became-law"}, "became_law">>,
     <<{"passage"}, "passage">>,
     <<{"committee-passage"}, "committee_approved">>,
     <<{"referral-committee", "committee-referral"}, "committee">>,
     <<{"reading-3"}, "floor_calendar">>,
     <<{"introduction", "filing"}, "introduced">> >>

FirstTags(actions) ==
  {actions[i].classification[1] :
     i \in {k \in DOMAIN actions : Has(actions[k], "classification")
                                   /\ Len(actions[k].classification) > 0}}

\* the ranks of StagePriority that the first tags of the actions match
Matches(actions) ==
  {k \in DOMAIN StagePriority : StagePriority[k][1] \cap FirstTags(actions) # {}}

\* first match wins
FirstMatchStage(actions) ==
  IF actions = <<>> \/ Matches(actions) = {} THEN "introduced"
  ELSE LET k == CHOOSE m \in Matches(actions) : \A n \in Matches(actions) : m <= n
       IN IF StagePriority[k][2] = "passage"
          THEN (IF TagCount(actions, "passage") >= 2 THEN "enrolled" ELSE "passed_chamber")
          ELSE StagePriority[k][2]

\* C7: the Stage Classifier of the pipeline returns what first-match-wins over
\* the fixed priority order returns, for every action list over the tag set.
C7_FirstMatchWins ==
  Classified => stageResult.sync = FirstMatchStage(StageInputActions)

\* the keywords of the description fallback, in priority order
DescriptionPriority ==
  << <<kw_signed, "signed">>, <<kw_veto, "vetoed">>, <<kw_enrolled, "enrolled">>,
     <<kw_passed, "passed_chamber">>, <<kw_committee, "committee">> >>

DescriptionMatches(d) ==
  {k \in DOMAIN DescriptionPriority : StrIncludes(toLowerCase(d), DescriptionPriority[k][1])}

FallbackStage(d) ==
  IF DescriptionMatches(d) = {} THEN "introduced"
  ELSE DescriptionPriority[CHOOSE m \in DescriptionMatches(d) :
                             \A n \in DescriptionMatches(d) : m <= n][2]

RecognisedTags == UNION {StagePriority[k][1] : k \in DOMAIN StagePriority}

\* C8: when no action of a non-empty list carries a recognised tag, the
\* classifier of Bill Sync returns the stage of the first keyword (signed, veto,
\* enrolled, passed, committee) found in the description, else introduced.
C8_DescriptionFallback ==
  (Classified /\ StageInputActions # <<>>
     /\ FirstTags(StageInputActions) \cap RecognisedTags = {})
    => stageResult.sync = FallbackStage(stageInput.latest_action_description)

(***************************************************************************)
(* Sync runs in which awaited calls reject                                 *)
(***************************************************************************)

\* number of awaited calls that reject in a behaviour
MaxFaults == 2

\* number of sync processes started in a behaviour with rejected awaits
MaxFaultRuns == 2

\* error.message of a rejected openStatesAPI.get and of a rejected pool.query
FetchError == "Request failed"
QueryError == "Connection terminated"

\* the awaits inside the try block of syncLegislators and of syncBills
LegislatorAwaits == {"L_fetch", "L_upsert", "L_meta"}
BillAwaits == {"B_fetch", "B_upsert", "B_history", "B_action", "B_sponsor_lookup",
               "B_sponsor_insert", "B_meta"}

ErrorAt(pc) == IF pc \in {"L_fetch", "B_fetch"} THEN FetchError ELSE QueryError

\* mutant of MetadataError: the message is not stored
MetadataError_StatusOnly(tbl, sync_type, message) ==
  [tbl EXCEPT ![sync_type].status = "error", ![sync_type].last_sync_at = Now]

\* UPDATE sync_metadata SET last_sync_at = NOW(), status = 'error',
\* error_message = $1 WHERE sync_type = ...
MetadataError(tbl, sync_type, message) ==
  [tbl EXCEPT ![sync_type].status = "error", ![sync_type].error_message = message,
              ![sync_type].last_sync_at = Now]

\* the await of a sub-sync rejects: control goes to its catch block; a rejected
\* query leaves its table as it was
Thrown(l, thrownBy, catch) ==
  [l EXCEPT !.pc = catch, !.error = ErrorAt(l.pc), !.thrownBy = thrownBy,
            !.requests = IF l.pc = "L_fetch" THEN Request(l, "/people")
                         ELSE IF l.pc = "B_fetch" THEN Request(l, "/bills")
                         ELSE @]

\* a sync process starts and the connection test SELECT NOW() rejects
ConnectionThrow(p) ==
  /\ Stopped(p)
  /\ runs < MaxFaultRuns
  /\ faults < MaxFaults
  /\ runs' = runs + 1
  /\ faults' = faults + 1
  /\ local' = [local EXCEPT ![p] =
       [InitLocal EXCEPT !.pc = "R_catch", !.error = QueryError, !.thrownBy = "connection"]]
  /\ pre' = Snapshot
  /\ UNCHANGED <<srcBills, srcPeople, tables, observed, stageInput, stageResult, webVars>>

\* an awaited call of syncLegislators rejects
L_Throw(p) ==
  /\ local[p].pc \in LegislatorAwaits
  /\ faults < MaxFaults
  /\ faults' = faults + 1
  /\ local' = [local EXCEPT ![p] = Thrown(@, "legislators", "L_catch")]
  /\ UNCHANGED <<srcBills, srcPeople, tables, runs, observed, pre, stageInput, stageResult, webVars>>

\* mutant of L_Catch: the error is recorded and swallowed, syncBills starts
L_Catch_Swallow(p) ==
  /\ local[p].pc = "L_catch"
  /\ sync_metadata' = MetadataError(sync_metadata, "legislators", local[p].error)
  /\ local' = [local EXCEPT ![p] =
       [@ EXCEPT !.pc = "B_fetch", !.page = 1, !.totalSynced = 0, !.recorded = TRUE]]
  /\ UNCHANGED <<faults, srcBills, srcPeople, bills, bill_history, bill_actions,
                 sponsorships, legislators, runs, observed, pre, stageInput, stageResult,
                 webVars>>

\* catch of syncLegislators: the error UPDATE of sync_metadata, then throw error
L_Catch(p) ==
  /\ local[p].pc = "L_catch"
  /\ sync_metadata' = MetadataError(sync_metadata, "legislators", local[p].error)
  /\ local' = [local EXCEPT ![p] = [@ EXCEPT !.pc = "R_catch", !.recorded = TRUE]]
  /\ UNCHANGED <<faults, srcBills, srcPeople, bills, bill_history, bill_actions,
                 sponsorships, legislators, runs, observed, pre, stageInput, stageResult,
                 webVars>>

\* catch of syncLegislators: the error UPDATE itself rejects, and its error is
\* the one that leaves syncLegislators
L_CatchThrow(p) ==
  /\ local[p].pc = "L_catch"
  /\ faults < MaxFaults
  /\ faults' = faults + 1
  /\ local' = [local EXCEPT ![p] = [@ EXCEPT !.pc = "R_catch", !.error = QueryError]]
  /\ UNCHANGED <<srcBills, srcPeople, tables, runs, observed, pre, stageInput, stageResult, webVars>>

\* an awaited call of syncBills rejects
B_Throw(p) ==
  /\ local[p].pc \in BillAwaits
  /\ faults < MaxFaults
  /\ faults' = faults + 1
  /\ local' = [local EXCEPT ![p] = Thrown(@, "bills", "B_catch")]
  /\ UNCHANGED <<srcBills, srcPeople, tables, runs, observed, pre, stageInput, stageResult, webVars>>

\* mutant of B_Catch: the error is caught per bill, and the loop goes on with
\* the next bill
B_Catch_PerBill(p) ==
  /\ local[p].pc = "B_catch"
  /\ sync_metadata' = MetadataError(sync_metadata, "bills", local[p].error)
  /\ local' = [local EXCEPT ![p] =
       IF @.idx \in DOMAIN @.response.results THEN BillDone([@ EXCEPT !.recorded = TRUE])
       ELSE [@ EXCEPT !.pc = "R_catch", !.recorded = TRUE]]
  /\ UNCHANGED <<faults, srcBills, srcPeople, bills, bill_history, bill_actions,
                 sponsorships, legislators, runs, observed, pre, stageInput, stageResult,
                 webVars>>

\* catch of syncBills: the error UPDATE of sync_metadata, then throw error
B_Catch(p) ==
  /\ local[p].pc = "B_catch"
  /\ sync_metadata' = MetadataError(sync_metadata, "bills", local[p].error)
  /\ local' = [local EXCEPT ![p] = [@ EXCEPT !.pc = "R_catch", !.recorded = TRUE]]
  /\ UNCHANGED <<faults, srcBills, srcPeople, bills, bill_history, bill_actions,
                 sponsorships, legislators, runs, observed, pre, stageInput, stageResult,
                 webVars>>

\* catch of syncBills: the error UPDATE itself rejects
B_CatchThrow(p) ==
  /\ local[p].pc = "B_catch"
  /\ faults < MaxFaults
  /\ faults' = faults + 1
  /\ local' = [local EXCEPT ![p] = [@ EXCEPT !.pc = "R_catch", !.error = QueryError]]
  /\ UNCHANGED <<srcBills, srcPeople, tables, runs, observed, pre, stageInput, stageResult, webVars>>

\* mutant of R_Catch: the failure is logged and the process ends normally
R_Catch_ExitZero(p) ==
  /\ local[p].pc = "R_catch"
  /\ local' = [local EXCEPT ![p] =
       [InitLocal EXCEPT !.pc = "exited", !.exitCode = 0, !.error = local[p].error,
                         !.thrownBy = local[p].thrownBy, !.recorded = local[p].recorded]]
  /\ UNCHANGED <<faults, srcBills, srcPeople, tables, runs, observed, pre, stageInput,
                 stageResult,
                 webVars>>

\* catch of runSync: process.exit(1) ends the process at once, and the finally
\* block with pool.end() is not run
R_Catch(p) ==
  /\ local[p].pc = "R_catch"
  /\ local' = [local EXCEPT ![p] =
       [InitLocal EXCEPT !.pc = "exited", !.exitCode = 1, !.error = local[p].error,
                         !.thrownBy = local[p].thrownBy, !.recorded = local[p].recorded]]
  /\ UNCHANGED <<faults, srcBills, srcPeople, tables, runs, observed, pre, stageInput,
                 stageResult,
                 webVars>>

\* bill b1 with two sponsors, one of them no legislator
B1Sponsored(actions) ==
  [id |-> "b1", title |-> "t1", latest_action_description |-> d_filed, actions |-> actions,
   sponsorships |-> <<[name |-> "Ann", classification |-> "primary"],
                      [name |-> "Zed", classification |-> "cosponsor"]>>]

\* the states of the /bills source in the runs with rejected awaits
FaultBillSources ==
  { <<PageOf(<<B1Sponsored(L1)>>, 2), PageOf(<<B2(L1)>>, 2)>>,
    <<PageOf(<<B1Sponsored(L2)>>, 2), PageOf(<<B2(L1)>>, 2)>> }

InitFault ==
  /\ srcBills \in FaultBillSources
  /\ srcPeople \in PeopleSources
  /\ InitTables
  /\ local = [p \in Procs |-> InitLocal]
  /\ runs = 0
  /\ faults = 0
  /\ observed = [b \in BillIds |-> <<>>]
  /\ pre = NoPre
  /\ stageInput = [latest_action_description |-> <<>>]
  /\ stageResult = NoResult
  /\ InitWeb

FaultSourceChange ==
  /\ \A p \in Procs : Stopped(p)
  /\ runs < MaxFaultRuns
  /\ srcBills' \in FaultBillSources \ {srcBills}
  /\ UNCHANGED <<faults, srcPeople, tables, local, runs, observed, pre, stageInput,
                 stageResult,
                 webVars>>

\* a sync process starts and the connection test succeeds
RunSyncFault(p) == runs < MaxFaultRuns /\ RunSync(p)

StepFault(p) ==
  \/ RunSyncFault(p)
  \/ L_Fetch(p)
  \/ L_Upsert(p)
  \/ L_Meta(p)
  \/ B_Fetch(p)
  \/ B_Upsert(p)
  \/ B_History(p)
  \/ B_Action(p)
  \/ B_SponsorLookup(p)
  \/ B_SponsorInsert(p)
  \/ B_Meta(p)
  \/ PoolEnd(p)
  \/ ConnectionThrow(p)
  \/ L_Throw(p)
  \/ L_Catch(p)
  \/ L_CatchThrow(p)
  \/ B_Throw(p)
  \/ B_Catch(p)
  \/ B_CatchThrow(p)
  \/ R_Catch(p)

NextFault == StepFault(1) \/ FaultSourceChange

SpecFault == InitFault /\ [][NextFault]_vars

(***************************************************************************)
(* Properties of the orchestrator runSync when awaited calls reject        *)
(***************************************************************************)

Exited == local[1].pc = "exited"

\* C11: whenever the sync process has terminated, after a successful run or
\* after the connection check, Legislator Sync or Bill Sync threw, its
\* connection pool has been closed with pool.end()
C11_PoolReleased == Exited => local[1].poolEnded

Running == local[1].pc \notin {"idle", "exited"}

\* positions in the request log of the running process of the requests to path
RequestsTo(path) ==
  {k \in DOMAIN local[1].requests : local[1].requests[k].path = path}

BillDataUnchanged ==
  /\ bills = pre.bills
  /\ bill_history = pre.bill_history
  /\ bill_actions = pre.bill_actions
  /\ sponsorships = pre.sponsorships

\* the run has fetched a bills page, written a bill, action, history or
\* sponsorship row, or touched the bills row of sync_metadata
BillSyncStarted ==
  \/ RequestsTo("/bills") # {}
  \/ ~BillDataUnchanged
  \/ sync_metadata["bills"] # pre.sync_metadata["bills"]

\* Legislator Sync of the current run has returned: its success row carries
\* the time of this run and nothing was thrown before or inside it
LegislatorSyncCompleted ==
  /\ sync_metadata["legislators"].status = "success"
  /\ sync_metadata["legislators"].last_success_at = Now
  /\ local[1].thrownBy \notin {"connection", "legislators"}

\* C12: a run fetches no bills page and writes no bill, action, history or
\* sponsorship row before Legislator Sync has completed successfully, every
\* people request precedes every bills request, and when the connection check
\* or Legislator Sync throws, Bill Sync never starts and the bills row of
\* sync_metadata is left as the run found it
C12_LegislatorsFirst ==
  /\ (Running /\ BillSyncStarted) =>
       /\ LegislatorSyncCompleted
       /\ \A i \in RequestsTo("/people") : \A j \in RequestsTo("/bills") : i < j
  /\ local[1].thrownBy \in {"connection", "legislators"} => ~BillSyncStarted

\* a second run whose Legislator Sync threw has exited, the bills and the
\* bills metadata of the first run untouched
C12_Witness ==
  /\ Exited
  /\ local[1].thrownBy = "legislators"
  /\ pre.bills # <<>>
  /\ bills = pre.bills
  /\ sync_metadata["bills"].status = "success"
  /\ sync_metadata["legislators"].status = "error"

\* the sub-sync of this type has returned in the current run
SyncCompleted(sync_type) ==
  /\ sync_metadata[sync_type].status = "success"
  /\ sync_metadata[sync_type].last_success_at = Now

Threw == local[1].thrownBy \in {"connection", "legislators", "bills"}

\* C13: the process ends with a non-zero exit status exactly when the
\* connection check, Legislator Sync or Bill Sync threw, and with status zero
\* exactly when both sub-syncs completed; once something was thrown the run
\* does nothing but handle the error and exit
C13_ExitOutcome ==
  /\ Exited => (local[1].exitCode # 0 <=> Threw)
  /\ Exited => (local[1].exitCode = 0 <=>
                  SyncCompleted("legislators") /\ SyncCompleted("bills"))
  /\ Threw => local[1].pc \in {"L_catch", "B_catch", "R_catch", "exited"}

\* a run has exited with status 1 after Legislator Sync completed and Bill
\* Sync threw
C13_Witness ==
  /\ Exited
  /\ local[1].exitCode = 1
  /\ local[1].thrownBy = "bills"
  /\ SyncCompleted("legislators")
  /\ bills # pre.bills

SubSyncThrew == local[1].thrownBy \in {"legislators", "bills"}

\* the sub-sync that threw has left its catch block
Rethrown == SubSyncThrew /\ local[1].pc \in {"R_catch", "exited"}

\* the sync_metadata row of the sub-sync carries the error of this run
ErrorRecorded(sync_type) ==
  /\ sync_metadata[sync_type].status = "error"
  /\ sync_metadata[sync_type].error_message = local[1].error
  /\ sync_metadata[sync_type].last_sync_at = Now

\* after a throw nothing but the error handling runs: no page is fetched
AbortsPages == SubSyncThrew => local[1].pc \in {"L_catch", "B_catch", "R_catch", "exited"}

MaxPagingRuns == 2

\* pages the paged sources hold beyond the page cap of a sub-sync
PagesBeyondCap == 2

Bob ==
  [id |-> "p2", name |-> "Bob", current_party |-> "R",
   current_role |-> [chamber |-> "lower", district |-> "2"]]

\* bill b2 with no actions property and no sponsors
B2Bare == [id |-> "b2", title |-> "t2", latest_action_description |-> d_filed]

\* response.data whose pagination gives total_pages and no max_page
PageOfTotal(results, total_pages) ==
  [results |-> results, pagination |-> [page |-> 1, total_pages |-> total_pages]]

\* a source of n pages that all hold the same records and announce more pages
\* than a sub-sync will ever fetch
LongSource(results, n) == [k \in 1..n |-> PageOf(results, n)]

\* the states of the paged source: its /people pages and its /bills pages
PagingSources ==
  { \* more pages than the caps
    [people |-> LongSource(<<Ann>>, maxPagesLegislators + PagesBeyondCap),
     bills |-> LongSource(<<B2Bare>>, maxPages + PagesBeyondCap)],
    \* no pagination metadata on a first page that is not the last
    [people |-> <<Page(<<Ann>>), Page(<<Bob>>)>>,
     bills |-> <<Page(<<B1Sponsored(L1)>>), Page(<<B2(L1)>>)>>],
    \* the last page announced as total_pages
    [people |-> <<PageOfTotal(<<Ann>>, 1)>>,
     bills |-> <<PageOfTotal(<<B1Sponsored(L2)>>, 2), PageOfTotal(<<B2(L1)>>, 2)>>],
    \* the last page announced as max_page
    [people |-> <<PageOf(<<Ann>>, 2), PageOf(<<Bob>>, 2), PageOf(<<Ann>>, 2)>>,
     bills |-> <<PageOf(<<B1Sponsored(L2)>>, 2), PageOf(<<B2(L1)>>, 2),
                 PageOf(<<B2(L2)>>, 2)>>],
    \* an empty page before the announced last page
    [people |-> <<PageOf(<<Ann>>, 3), PageOf(<<>>, 3), PageOf(<<Bob>>, 3)>>,
     bills |-> <<PageOf(<<B1Sponsored(L1)>>, 3), PageOf(<<>>, 3), PageOf(<<B2(L1)>>, 3)>>] }

InitPaging ==
  /\ \E s \in PagingSources : srcPeople = s.people /\ srcBills = s.bills
  /\ InitTables
  /\ local = [p \in Procs |-> InitLocal]
  /\ runs = 0
  /\ faults = 0
  /\ observed = [b \in BillIds |-> <<>>]
  /\ pre = NoPre
  /\ stageInput = [latest_action_description |-> <<>>]
  /\ stageResult = NoResult
  /\ InitWeb

\* the source publishes another state, between two sync runs
PagingSourceChange ==
  /\ \A p \in Procs : Stopped(p)
  /\ runs < MaxPagingRuns
  /\ \E s \in PagingSources :
       /\ s.bills # srcBills
       /\ srcPeople' = s.people
       /\ srcBills' = s.bills
  /\ UNCHANGED <<faults, tables, local, runs, observed, pre, stageInput, stageResult, webVars>>

RunSyncPaging(p) == runs < MaxPagingRuns /\ RunSync(p)

StepPaging(p) ==
  \/ RunSyncPaging(p)
  \/ L_Fetch(p)
  \/ L_Upsert(p)
  \/ L_Meta(p)
  \/ B_Fetch(p)
  \/ B_Upsert(p)
  \/ B_History(p)
  \/ B_Action(p)
  \/ B_SponsorLookup(p)
  \/ B_SponsorInsert(p)
  \/ B_Meta(p)
  \/ PoolEnd(p)

NextPaging == StepPaging(1) \/ PagingSourceChange

SpecPaging == InitPaging /\ [][NextPaging]_vars

(***************************************************************************)
(* Properties of the page loops                                            *)
(***************************************************************************)

Paths == {"/people", "/bills"}

Cap(path) == IF path = "/people" THEN maxPagesLegislators ELSE maxPages

Source(path) == IF path = "/people" THEN srcPeople ELSE srcBills

SyncType(path) == IF path = "/people" THEN "legislators" ELSE "bills"

\* the pages of path the running process has requested
PagesOf(path) == {local[1].requests[k].page : k \in RequestsTo(path)}

\* the pagination metadata of page k says, in one of these forms, that k is the
\* last page
ReportsLast(path, k, forms) ==
  LET data == Get(Source(path), k)
  IN /\ Has(data, "pagination")
     /\ \E f \in forms : Has(data.pagination, f) /\ k >= data.pagination[f]

\* page k ends the loop: it is empty, carries no pagination metadata, is
\* reported to be the last one, or is the last one the cap allows
StopAt(path, k, forms) ==
  \/ Len(Get(Source(path), k).results) = 0
  \/ ~Has(Get(Source(path), k), "pagination")
  \/ ReportsLast(path, k, forms)
  \/ k >= Cap(path)

\* the loop over the pages of path requests pages 1, 2, ... once each, at most
\* the cap, goes on only from a page that does not end the loop, and the
\* sub-sync returns only after a page that ends it
PageLoop(path, forms) ==
  LET n == Cardinality(RequestsTo(path))
  IN /\ PagesOf(path) = 1..n
     /\ n <= Cap(path)
     /\ \A k \in 1..(n - 1) : ~StopAt(path, k, forms)
     /\ (Running /\ SyncCompleted(SyncType(path))) => (n >= 1 /\ StopAt(path, n, forms))

\* C15: each sub-sync stops fetching at the first page that is empty, or that
\* the pagination metadata reports as the last one, as total pages or as max
\* page, or that reaches the page cap (10 for legislators, 20 for bills); it
\* never requests more pages than its cap
C15_PageLoopTermination ==
  \A path \in Paths : PageLoop(path, {"max_page", "total_pages"})

\* the same with the last page recognised from the max_page marker only
PageLoopOnMaxPage == \A path \in Paths : PageLoop(path, {"max_page"})

\* both caps are reached: ten people pages and twenty bills pages requested
PageCapsReached ==
  /\ local[1].pc = "end"
  /\ Cardinality(RequestsTo("/people")) = maxPagesLegislators
  /\ Cardinality(RequestsTo("/bills")) = maxPages

Table(path) == IF path = "/people" THEN legislators ELSE bills

\* number of records on the pages 1..n of a source
RECURSIVE RecordsOnPages(_, _)
RecordsOnPages(src, n) ==
  IF n = 0 THEN 0 ELSE Len(Get(src, n).results) + RecordsOnPages(src, n - 1)

\* page k of path holds records and no pagination metadata
Unpaginated(path, k) ==
  /\ Len(Get(Source(path), k).results) > 0
  /\ ~Has(Get(Source(path), k), "pagination")

\* C16: a requested page that holds records and no pagination metadata is the
\* last page the sub-sync requests; the sub-sync then returns without error,
\* with the records of that page stored and its sync_metadata row at success
\* with the number of records of the pages it fetched
C16_NoPaginationIsLastPage ==
  \A path \in Paths : \A k \in PagesOf(path) :
    Unpaginated(path, k) =>
      /\ \A q \in PagesOf(path) : q <= k
      /\ local[1].thrownBy = NULL
      /\ local[1].pc = (IF path = "/people" THEN "L_meta" ELSE "B_meta") =>
           local[1].totalSynced = RecordsOnPages(Source(path), k)
      /\ (Running /\ SyncCompleted(SyncType(path))) =>
           /\ \A n \in DOMAIN Get(Source(path), k).results :
                RowOf(Table(path), Get(Source(path), k).results[n].id) # 0
           /\ sync_metadata[SyncType(path)].records_synced = RecordsOnPages(Source(path), k)

\* a first run has returned from Bill Sync over a source whose first page has
\* no pagination metadata and whose second page holds bill b2: one request, b1
\* stored, b2 not, one record counted
C16_Witness ==
  /\ local[1].pc = "end"
  /\ runs = 1
  /\ Len(srcBills) = 2
  /\ Unpaginated("/bills", 1)
  /\ Len(srcBills[2].results) > 0
  /\ PagesOf("/bills") = {1}
  /\ PagesOf("/people") = {1}
  /\ RowOf(bills, "b1") # 0
  /\ RowOf(bills, "b2") = 0
  /\ sync_metadata["bills"].status = "success"
  /\ sync_metadata["bills"].records_synced = 1

(***************************************************************************)
(* Sync runs over a /people source that changes                            *)
(***************************************************************************)

\* number of sync processes started in a behaviour over changing legislators
MaxPeopleRuns == 3

\* legislator p1 after a change of party, given as party[0].name
AnnSwitched ==
  [id |-> "p1", name |-> "Ann", party |-> <<[name |-> "R"]>>, current_party |-> "D",
   current_role |-> [chamber |-> "upper", district |-> "1"], email |-> "ann@ok.gov"]

\* legislator p1 with every property changed
AnnMoved ==
  [id |-> "p1", name |-> "Ann B", current_party |-> "I",
   current_role |-> [chamber |-> "lower", district |-> "7"],
   image |-> "b.png", email |-> "annb@ok.gov", phone |-> "555"]

\* another legislator of the same name as p1
Ann2 == [id |-> "p3", name |-> "Ann", current_party |-> "R"]

\* the states of the source: its /people pages and its /bills pages
PeopleRunSources ==
  { [people |-> <<PageOf(<<Ann>>, 1)>>,
     bills |-> <<PageOf(<<B1Sponsored(L1)>>, 1)>>],
    [people |-> <<PageOf(<<AnnMoved>>, 1)>>,
     bills |-> <<PageOf(<<B1Sponsored(L2)>>, 1)>>],
    \* p1 on two pages, and two legislators named Ann
    [people |-> <<PageOf(<<Ann, Bob>>, 2), PageOf(<<AnnSwitched, Ann2>>, 2)>>,
     bills |-> <<PageOf(<<B1Sponsored(L3)>>, 1)>>] }

InitPeople ==
  /\ \E s \in PeopleRunSources : srcPeople = s.people /\ srcBills = s.bills
  /\ InitTables
  /\ local = [p \in Procs |-> InitLocal]
  /\ runs = 0
  /\ faults = 0
  /\ observed = [b \in BillIds |-> <<>>]
  /\ pre = NoPre
  /\ stageInput = [latest_action_description |-> <<>>]
  /\ stageResult = NoResult
  /\ InitWeb

\* the source publishes another state, between two sync runs
PeopleSourceChange ==
  /\ \A p \in Procs : Stopped(p)
  /\ runs < MaxPeopleRuns
  /\ \E s \in PeopleRunSources :
       /\ s.people # srcPeople
       /\ srcPeople' = s.people
       /\ srcBills' = s.bills
  /\ UNCHANGED <<faults, tables, local, runs, observed, pre, stageInput, stageResult, webVars>>

RunSyncPeople(p) == runs < MaxPeopleRuns /\ RunSync(p)

StepPeople(p) ==
  \/ RunSyncPeople(p)
  \/ L_Fetch(p)
  \/ L_Upsert(p)
  \/ L_Meta(p)
  \/ B_Fetch(p)
  \/ B_Upsert(p)
  \/ B_History(p)
  \/ B_Action(p)
  \/ B_SponsorLookup(p)
  \/ B_SponsorInsert(p)
  \/ B_Meta(p)
  \/ PoolEnd(p)

NextPeople == StepPeople(1) \/ PeopleSourceChange

SpecPeople == InitPeople /\ [][NextPeople]_vars

(***************************************************************************)
(* Properties of Legislator Sync and of sponsor linking                    *)
(***************************************************************************)

\* the records of pages 1..n of a source, in the order a sub-sync processes them
RECURSIVE RecordsOf(_, _)
RecordsOf(src, n) ==
  IF n = 0 THEN <<>> ELSE RecordsOf(src, n - 1) \o Get(src, n).results

\* the legislator records the running process has fetched
PeopleFetched == RecordsOf(srcPeople, Cardinality(RequestsTo("/people")))

IdsOf(recs) == {recs[k].id : k \in DOMAIN recs}

\* the last record of recs with this id
LastWith(recs, id) ==
  recs[CHOOSE k \in DOMAIN recs :
         /\ recs[k].id = id
         /\ \A n \in DOMAIN recs : recs[n].id = id => n <= k]

RowsOf(tbl, openstates_id) == {k \in DOMAIN tbl : tbl[k].openstates_id = openstates_id}

StoredIds(tbl) == {tbl[k].openstates_id : k \in DOMAIN tbl}

\* C17: the legislators table never holds two rows with the same external id;
\* when Legislator Sync has returned, every external id of the pages it
\* fetched has one row, whose party is that of the id's last record, and the
\* table has grown by one row per external id that was not stored before
C17_LegislatorUpsert ==
  /\ \A i, j \in DOMAIN legislators :
       legislators[i].openstates_id = legislators[j].openstates_id => i = j
  /\ (Running /\ SyncCompleted("legislators")) =>
       /\ \A id \in IdsOf(PeopleFetched) :
            /\ Cardinality(RowsOf(legislators, id)) = 1
            /\ legislators[RowOf(legislators, id)].party = PartyOf(LastWith(PeopleFetched, id))
       /\ Len(legislators) = Len(pre.legislators)
            + Cardinality(IdsOf(PeopleFetched) \ StoredIds(pre.legislators))

\* Legislator Sync has returned in a later run: p1 was stored with party I and
\* appears on two pages, its row now has the party R of the second one, and
\* two new legislators were inserted
C17_Witness ==
  /\ Running
  /\ SyncCompleted("legislators")
  /\ RowOf(pre.legislators, "p1") # 0
  /\ pre.legislators[RowOf(pre.legislators, "p1")].party = "I"
  /\ legislators[RowOf(legislators, "p1")].party = "R"
  /\ Cardinality({k \in DOMAIN PeopleFetched : PeopleFetched[k].id = "p1"}) = 2
  /\ Len(legislators) = Len(pre.legislators) + 2

\* the columns that DO UPDATE SET does not name
KeepsUnnamedColumns(old, new) ==
  /\ new.id = old.id
  /\ new.openstates_id = old.openstates_id
  /\ new.image_url = old.image_url
  /\ new.email = old.email
  /\ new.phone = old.phone

\* the step about to be taken is the upsert of a record whose external id is
\* that of the stored row old
UpsertsOnto(old) ==
  /\ local[1].pc = "L_upsert"
  /\ CurrentLegislator(local[1]).id = old.openstates_id

\* legislator.current_role?.chamber, legislator.current_role?.district
RoleOf(legislator, f) ==
  IF Has(legislator, "current_role") THEN Opt(legislator.current_role, f) ELSE NULL

\* C18: no step removes a legislators row or changes its id, external id,
\* image, email or phone; the upsert of a record whose external id is stored
\* sets name, party, chamber and district from the record and the update
\* timestamp to the current time, and no other step changes a stored row
C18_ConflictFrame ==
  [][\A k \in DOMAIN legislators :
       /\ k \in DOMAIN legislators'
       /\ KeepsUnnamedColumns(legislators[k], legislators'[k])
       /\ IF UpsertsOnto(legislators[k])
          THEN /\ legislators'[k].name = CurrentLegislator(local[1]).name
               /\ legislators'[k].party = PartyOf(CurrentLegislator(local[1]))
               /\ legislators'[k].chamber = RoleOf(CurrentLegislator(local[1]), "chamber")
               /\ legislators'[k].district = RoleOf(CurrentLegislator(local[1]), "district")
               /\ legislators'[k].updated_at = Now
          ELSE legislators'[k] = legislators[k]]_vars

\* the row of p1, inserted in the first run from a record with an email and no
\* phone or image, has been rewritten in a later run from a record with
\* another name, email, phone and image
C18_Witness ==
  /\ RowOf(legislators, "p1") # 0
  /\ legislators[RowOf(legislators, "p1")].name = "Ann B"
  /\ legislators[RowOf(legislators, "p1")].chamber = "lower"
  /\ legislators[RowOf(legislators, "p1")].updated_at > 1
  /\ legislators[RowOf(legislators, "p1")].email = "ann@ok.gov"
  /\ legislators[RowOf(legislators, "p1")].phone = NULL
  /\ legislators[RowOf(legislators, "p1")].image_url = NULL

\* the stored legislators of this name
Named(name) == {k \in DOMAIN legislators : legislators[k].name = name}

\* C19: every step that writes sponsorships appends one row and leaves the
\* others alone; the row carries the sponsor's name, and its legislator_id is
\* null when no stored legislator has exactly that name and else the id of
\* one that has; the bill sync goes on after the insert, match or no match
C19_SponsorLinking ==
  [][sponsorships' # sponsorships =>
       LET r == sponsorships'[Len(sponsorships')]
       IN /\ Len(sponsorships') = Len(sponsorships) + 1
          /\ \A k \in DOMAIN sponsorships : sponsorships'[k] = sponsorships[k]
          /\ r.name = CurrentBill(local[1]).sponsorships[local[1].j].name
          /\ IF Named(r.name) = {}
             THEN r.legislator_id = NullId
             ELSE \E k \in Named(r.name) : r.legislator_id = legislators[k].id
          /\ local'[1].thrownBy = NULL
          /\ local'[1].pc \in {"B_sponsor_lookup", "B_upsert", "B_fetch", "B_meta"}]_vars

\* Bill Sync has returned with a sponsor Ann linked to a legislator, a sponsor
\* Ann written with no link while no legislator had that name, and a sponsor
\* Zed with no link
C19_Witness ==
  /\ local[1].pc = "end"
  /\ sync_metadata["bills"].status = "success"
  /\ \E k \in DOMAIN sponsorships :
       /\ sponsorships[k].name = "Ann"
       /\ sponsorships[k].legislator_id # NullId
       /\ \E n \in DOMAIN legislators : legislators[n].id = sponsorships[k].legislator_id
  /\ \E k \in DOMAIN sponsorships :
       sponsorships[k].name = "Ann" /\ sponsorships[k].legislator_id = NullId
  /\ \E k \in DOMAIN sponsorships :
       sponsorships[k].name = "Zed" /\ sponsorships[k].legislator_id = NullId

(***************************************************************************)
(* Properties of Sync Metadata                                             *)
(***************************************************************************)

\* the sub-sync of the page path has returned in the run of the process
Returned(path) ==
  IF path = "/people"
  THEN \/ local[1].pc \in BillAwaits \cup {"B_catch", "end"}
       \/ local[1].pc = "R_catch" /\ local[1].thrownBy = "bills"
  ELSE local[1].pc = "end"

\* the row of the sub-sync says success, with the number of records of the
\* pages the run fetched and the time of the run
SuccessRecorded(path) ==
  /\ sync_metadata[SyncType(path)].status = "success"
  /\ sync_metadata[SyncType(path)].records_synced =
       RecordsOnPages(Source(path), Cardinality(RequestsTo(path)))
  /\ sync_metadata[SyncType(path)].last_sync_at = Now
  /\ sync_metadata[SyncType(path)].last_success_at = Now

\* no row of sync_metadata is inserted or deleted
OneRowPerSyncType == DOMAIN sync_metadata = DOMAIN InitSyncMetadata

C21_BillLifecycle ==
  [][/\ \A k \in DOMAIN bills :
          /\ k \in DOMAIN bills'
          /\ bills'[k].id = bills[k].id
          /\ bills'[k].openstates_id = bills[k].openstates_id
     /\ \A i, j \in DOMAIN bills' :
          bills'[i].openstates_id = bills'[j].openstates_id => i = j
     /\ IF local[1].pc = "B_upsert"
        THEN LET bill == CurrentBill(local[1])
                 k == RowOf(bills, bill.id)
             IN IF k = 0
                THEN /\ Len(bills') = Len(bills) + 1
                     /\ bills'[Len(bills')].openstates_id = bill.id
                     /\ bills'[Len(bills')].stage = determineBillStage(bill)
                ELSE /\ Len(bills') = Len(bills)
                     /\ bills'[k].title = bill.title
                     /\ bills'[k].stage = determineBillStage(bill)
                     /\ \A n \in DOMAIN bills : n # k => bills'[n] = bills[n]
        ELSE bills' = bills]_vars

\* a second run has met bill b2, stored by the first run, on each of its
\* twenty pages: the table still holds the two rows of the first run, b2 in
\* the same row
C21_Witness ==
  /\ local[1].pc = "end"
  /\ runs = 2
  /\ Cardinality(RequestsTo("/bills")) = maxPages
  /\ \A k \in 1..maxPages : Get(srcBills, k).results[1].id = "b2"
  /\ Len(pre.bills) = 2
  /\ Len(bills) = 2
  /\ RowOf(bills, "b2") # 0
  /\ RowOf(bills, "b2") = RowOf(pre.bills, "b2")

(***************************************************************************)
(* Properties of the three determineBillStage functions                    *)
(***************************************************************************)

\* stageInput with its actions in every order
Reorderings ==
  IF Has(stageInput, "actions")
  THEN {[stageInput EXCEPT !.actions = [i \in DOMAIN stageInput.actions |->
                                          stageInput.actions[f[i]]]] :
          f \in Permutations(DOMAIN stageInput.actions)}
  ELSE {stageInput}

\* a bill that has the actions of b and no other property
ActionsAlone(b) == IF Has(b, "actions") THEN [actions |-> b.actions] ELSE [none |-> NULL]

\* the bills with the actions of stageInput, in any order, and any latest
\* action description
SameActionList ==
  {[b EXCEPT !.latest_action_description = d] : b \in Reorderings, d \in StageDescriptions}

Stages ==
  {"introduced", "committee", "committee_approved", "floor_calendar", "passed_chamber",
   "enrolled", "signed", "vetoed", "became_law", "dead"}

\* the tags the sync function tests
SyncTags ==
  {"executive-signature", "executive-veto", "became-law", "passage", "committee-passage",
   "referral-committee", "reading-3", "introduction"}

\* the bill has no action list, an empty one, or only actions whose
\* classification is missing or empty
NoClassification ==
  \A i \in DOMAIN StageInputActions :
    ~Has(StageInputActions[i], "classification")
      \/ StageInputActions[i].classification = <<>>

\* no action has a first classification the sync function tests
NothingMatches ==
  \A i \in DOMAIN StageInputActions : \A t \in SyncTags :
    ~HasFirstTag(StageInputActions[i], t)

\* C24: determineBillStage of the sync returns a value of the stage enum for
\* every bill, and introduced for a bill with no action list, an empty one,
\* or actions without classification, as whenever no tested tag matches
C24_Total ==
  Classified =>
    /\ stageResult.sync \in Stages
    /\ NoClassification => stageResult.sync = "introduced"
    /\ NothingMatches => stageResult.sync = "introduced"

\* an action with no classification property next to one with an empty
\* classification array
C24_Witness ==
  /\ Classified
  /\ Len(StageInputActions) = 2
  /\ ~Has(StageInputActions[1], "classification")
  /\ Has(StageInputActions[2], "classification")
  /\ StageInputActions[2].classification = <<>>
  /\ stageResult.sync = "introduced"

\* C28: the three copies of determineBillStage return the same stage for
\* every bill (action list plus latest-action description)
C28_CopiesEquivalent ==
  Classified =>
    /\ stageResult.sync = stageResult.server
    /\ stageResult.sync = stageResult.enhanced

\* the two server copies agree with each other on every bill
ServerCopiesAgree == Classified => stageResult.server = stageResult.enhanced

(***************************************************************************)
(* Properties of bill_history over successive runs                         *)
(***************************************************************************)

\* process 1 has upserted bill b and not yet inserted the history row of
\* that write
HistoryPending(b) == local[1].pc = "B_history" /\ CurrentBill(local[1]).id = b

\* the stage bill b was stored with when it was first written
FirstStage(b) == determineBillStage(observed[b][1])

\* the rows form a chain from the first stage to the stage stored now
Chained(rows, first, current) ==
  /\ \A k \in DOMAIN rows :
       rows[k][1] = (IF k = 1 THEN first ELSE rows[k - 1][2])
  /\ current = (IF rows = <<>> THEN first ELSE rows[Len(rows)][2])

\* C29: under non-overlapping, error-free runs the bill_history rows of a
\* bill, in insertion order, form a chain: each previous_stage is the stage of
\* the row before it (the stage stored at first observation for the first
\* row), and the newest row's stage is the current bills.stage
C29_HistoryChain ==
  \A b \in BillIds :
    (observed[b] # <<>> /\ ~HistoryPending(b)) =>
      Chained(HistoryPairs(bill_history, StoredId(bills, b)),
              FirstStage(b), StoredStage(bills, b))

\* a bill with three history rows, the last of which returns to an earlier stage
C29_Witness ==
  /\ BillSyncReturned
  /\ \E b \in BillIds :
       LET rows == HistoryPairs(bill_history, StoredId(bills, b))
       IN /\ Len(rows) = 3
          /\ rows[1][1] = FirstStage(b)
          /\ rows[2][1] = rows[1][2]
          /\ rows[3][1] = rows[2][2]
          /\ rows[3][2] = StoredStage(bills, b)
          /\ rows[3][2] = rows[1][1]

(***************************************************************************)
(* Properties of the sponsorships table                                    *)
(***************************************************************************)

\* C30: re-running Bill Sync over an unchanged sponsorship list adds no
\* sponsorships row: each (bill, sponsor name, classification) is stored at
\* most once
C30_SponsorshipIdempotent ==
  \A k1, k2 \in DOMAIN sponsorships :
    (sponsorships[k1].bill_id = sponsorships[k2].bill_id
       /\ sponsorships[k1].name = sponsorships[k2].name
       /\ sponsorships[k1].classification = sponsorships[k2].classification) => k1 = k2

(***************************************************************************)
(* Bill Sync failing in the middle of a page                               *)
(***************************************************************************)

AbortBillIds == {"b1", "b2", "b3", "b4"}

Bill(id, actions) ==
  [id |-> id, title |-> "t", latest_action_description |-> d_filed, actions |-> actions]

\* the states of the /bills source: three bills on the first page and one on
\* the second; the first two bills move from introduced to committee
AbortBillSources ==
  { <<PageOf(<<B1Sponsored(L1), Bill("b2", L1), Bill("b3", L1)>>, 2),
      PageOf(<<Bill("b4", L1)>>, 2)>>,
    <<PageOf(<<B1Sponsored(L2), Bill("b2", L2), Bill("b3", L1)>>, 2),
      PageOf(<<Bill("b4", L1)>>, 2)>> }

InitAbort ==
  /\ srcBills \in AbortBillSources
  /\ srcPeople \in PeopleSources
  /\ InitTables
  /\ local = [p \in Procs |-> InitLocal]
  /\ runs = 0
  /\ faults = 0
  /\ observed = [b \in AbortBillIds |-> <<>>]
  /\ pre = [NoPre EXCEPT !.observed = [b \in AbortBillIds |-> <<>>]]
  /\ stageInput = [latest_action_description |-> <<>>]
  /\ stageResult = NoResult
  /\ InitWeb

AbortSourceChange ==
  /\ \A p \in Procs : Stopped(p)
  /\ runs < MaxFaultRuns
  /\ srcBills' \in AbortBillSources \ {srcBills}
  /\ UNCHANGED <<faults, srcPeople, tables, local, runs, observed, pre, stageInput,
                 stageResult,
                 webVars>>

NextAbort == StepFault(1) \/ AbortSourceChange

SpecAbort == InitAbort /\ [][NextAbort]_vars

\* the rows Bill Sync and Legislator Sync have written
Committed == <<bills, bill_history, bill_actions, sponsorships, legislators>>

\* this step is an awaited call of syncBills rejecting
BillAwaitRejects == local[1].pc \in BillAwaits /\ local'[1].pc = "B_catch"

\* syncBills has thrown and the process has not exited yet
BillSyncFailed == local[1].thrownBy = "bills" /\ local[1].pc \in {"B_catch", "R_catch"}

\* C27: when a statement fails while the k-th bill of a run is processed,
\* every row written for earlier bills and by the statements already completed
\* for bill k stays as written, and the run processes no later bill of that
\* page or of later pages
C27_NoRollbackNoIsolation ==
  [][/\ BillAwaitRejects => (Committed' = Committed /\ observed' = observed)
     /\ BillSyncFailed =>
          /\ Committed' = Committed
          /\ observed' = observed
          /\ local'[1].pc \in {"R_catch", "exited"}
          /\ local'[1].pc = "R_catch" => local'[1].requests = local[1].requests]_vars

\* a run has exited after the history insert of its second bill failed: the
\* first bill has its new stage and its history row, the second bill has its
\* new stage without a history row, the third and fourth bill were not written
C27_Witness ==
  /\ Exited
  /\ local[1].exitCode = 1
  /\ local[1].thrownBy = "bills"
  /\ Processed("b1")
  /\ StoredStage(pre.bills, "b1") = "introduced"
  /\ StoredStage(bills, "b1") = "committee"
  /\ Cardinality(NewHistory("b1")) = 1
  /\ Processed("b2")
  /\ StoredStage(pre.bills, "b2") = "introduced"
  /\ StoredStage(bills, "b2") = "committee"
  /\ NewHistory("b2") = {}
  /\ ~Processed("b3")
  /\ ~Processed("b4")
  /\ Len(bill_actions) > Len(pre.bill_actions)

(***************************************************************************)
(* Two sync processes at once.  The bill upsert is one statement: its      *)
(* RETURNING subquery reads the snapshot taken when the statement starts,  *)
(* its ON CONFLICT arbitration acts on the latest committed row, so a      *)
(* statement of the other process can commit between the two.              *)
(***************************************************************************)

MaxRaceRuns == 3

\* bill b1 before it has any action, and after its referral to a committee
R0 == [id |-> "b1", title |-> "t1", latest_action_description |-> d_filed]
R1 == B1(<<Action(<<"referral-committee">>)>>)

\* the successive states of the /bills source
RaceBillSources == << <<Page(<<R0>>)>>, <<Page(<<R1>>)>> >>

InitRace ==
  /\ srcBills = RaceBillSources[1]
  /\ srcPeople \in PeopleSources
  /\ InitTables
  /\ local = [p \in Procs |-> InitLocal]
  /\ runs = 0
  /\ faults = 0
  /\ observed = [b \in BillIds |-> <<>>]
  /\ pre = NoPre
  /\ stageInput = [latest_action_description |-> <<>>]
  /\ stageResult = NoResult
  /\ InitWeb

\* the source publishes the next state of the bill, whatever the processes do
RaceSourceChange ==
  /\ \E n \in 1..(Len(RaceBillSources) - 1) :
       srcBills = RaceBillSources[n] /\ srcBills' = RaceBillSources[n + 1]
  /\ UNCHANGED <<faults, srcPeople, tables, local, runs, observed, pre, stageInput,
                 stageResult,
                 webVars>>

RunSyncRace(p) == runs < MaxRaceRuns /\ RunSync(p)

\* mutant of WriteBill: insert or update is decided on the snapshot of the
\* statement, not on the row as it is now
WriteBill_FromSnapshot(tbl, bill, stage, oldStage) ==
  IF oldStage = NULL THEN UpsertBill_AlwaysInsert(tbl, bill, stage)
  ELSE UpsertBill(tbl, bill, stage)

\* INSERT ... ON CONFLICT (openstates_id) DO UPDATE: the unique index decides
\* on the rows committed when the write happens
WriteBill(tbl, bill, stage, oldStage) == UpsertBill(tbl, bill, stage)

\* determineBillStage(bill); the upsert statement starts and takes its snapshot,
\* the one the subquery of RETURNING reads old_stage from
B_UpsertSnapshot(p) ==
  /\ local[p].pc = "B_upsert"
  /\ LET bill == CurrentBill(local[p])
         stage == determineBillStage(bill)
     IN local' = [local EXCEPT ![p] =
          [@ EXCEPT !.stage = stage, !.oldStage = OldStage(bills, bill, stage),
                    !.pc = "B_upsert_write"]]
  /\ UNCHANGED <<faults, srcBills, srcPeople, tables, runs, observed, pre, stageInput,
                 stageResult,
                 webVars>>

\* the upsert statement writes the row and returns id and old_stage
B_UpsertWrite(p) ==
  /\ local[p].pc = "B_upsert_write"
  /\ LET bill == CurrentBill(local[p])
     IN /\ bills' = WriteBill(bills, bill, local[p].stage, local[p].oldStage)
        /\ observed' = [observed EXCEPT ![bill.id] = Append(@, bill)]
        /\ local' = [local EXCEPT ![p] =
             AfterUpsert([@ EXCEPT !.billId = bills'[RowOf(bills', bill.id)].id])]
  /\ UNCHANGED <<faults, srcBills, srcPeople, bill_history, bill_actions, sponsorships,
                 legislators, sync_metadata, runs, pre, stageInput, stageResult,
                 webVars>>

StepRace(p) ==
  \/ RunSyncRace(p)
  \/ L_Fetch(p)
  \/ L_Upsert(p)
  \/ L_Meta(p)
  \/ B_Fetch(p)
  \/ B_UpsertSnapshot(p)
  \/ B_UpsertWrite(p)
  \/ B_History(p)
  \/ B_Action(p)
  \/ B_Meta(p)
  \/ PoolEnd(p)

NextRace == StepRace(1) \/ StepRace(2) \/ RaceSourceChange

SpecRace == InitRace /\ [][NextRace]_vars

\* the stages bill b was successively stored with
StagesWritten(b) == [k \in DOMAIN observed[b] |-> determineBillStage(observed[b][k])]

\* the number of bill_history rows recording the transition from stage s to stage t
HistoryRows(s, t) ==
  Cardinality({k \in DOMAIN bill_history :
                 bill_history[k].previous_stage = s /\ bill_history[k].stage = t})

NoSyncRunning == \A p \in Procs : Stopped(p)

\* C22: whatever the interleaving of two sync processes writing the same bill,
\* the bill row is never duplicated and never lost (duplicate and missing
\* bill_history rows are the cases of C22_Witness and C22_MissedTransition)
C22_BillRowKept ==
  [][/\ \A k \in DOMAIN bills :
          /\ k \in DOMAIN bills'
          /\ bills'[k].id = bills[k].id
          /\ bills'[k].openstates_id = bills[k].openstates_id
     /\ \A k1, k2 \in DOMAIN bills' :
          bills'[k1].openstates_id = bills'[k2].openstates_id => k1 = k2]_vars

\* two overlapping runs have both written the one transition of the stored bill
\* from introduced to committee, and each has inserted a history row for it
C22_Witness ==
  /\ NoSyncRunning
  /\ Len(bills) = 1
  /\ StagesWritten("b1") = <<"introduced", "committee", "committee">>
  /\ HistoryRows("introduced", "committee") = 2
  /\ Len(bill_history) = 2

\* two overlapping runs have stored the bill as introduced and then as
\* committee, and no history row records the transition
C22_MissedTransition ==
  /\ NoSyncRunning
  /\ Len(bills) = 1
  /\ StagesWritten("b1") = <<"introduced", "committee">>
  /\ bill_history = <<>>

(***************************************************************************)
(* The notification checker (checkNotifications, started hourly by cron)   *)
(* over the subscriptions written by server-complete.js and the            *)
(* bill_history rows written by Bill Sync                                  *)
(***************************************************************************)

MaxClock == 5

Emails == {"ann@ok.gov"}

NotificationTypes == {"status_change", "all_updates", "daily_digest"}

\* what the notification checker and the subscription endpoints leave alone
syncVars ==
  <<srcBills, srcPeople, local, runs, faults, observed, pre, stageInput, stageResult>>

\* INSERT INTO bill_history (bill_id, stage, status, previous_stage), with the
\* column default changed_at = NOW()
InsertHistoryAt(tbl, billId, stage, status, oldStage, now) ==
  Append(tbl, [id |-> Len(tbl) + 1, bill_id |-> billId, stage |-> stage,
               status |-> status, previous_stage |-> oldStage, changed_at |-> now])

\* one error-free Bill Sync run over a source that holds bill b1 with this
\* action list: the upsert and, on a stage change, the history insert
SyncBill(actions) ==
  /\ clock < MaxClock
  /\ LET bill == B1(actions)
         stage == determineBillStage(bill)
         oldStage == OldStage(bills, bill, stage)
     IN /\ bills' = UpsertBill(bills, bill, stage)
        /\ bill_history' =
             IF HistoryNeeded(oldStage, stage)
             THEN InsertHistoryAt(bill_history, bills'[RowOf(bills', bill.id)].id, stage,
                                  Opt(bill, "latest_action_description"), oldStage, clock)
             ELSE bill_history
  /\ clock' = clock + 1
  /\ UNCHANGED <<syncVars, bill_actions, sponsorships, legislators, sync_metadata,
                 email_subscriptions, outbox, checker, statsCache, served>>

\* the row of UNIQUE(email, bill_id, notification_type), 0 when there is none
SubscriptionOf(tbl, email, billId, notificationType) ==
  IF \E k \in DOMAIN tbl : /\ tbl[k].email = email /\ tbl[k].bill_id = billId
                           /\ tbl[k].notification_type = notificationType
  THEN CHOOSE k \in DOMAIN tbl : /\ tbl[k].email = email /\ tbl[k].bill_id = billId
                                 /\ tbl[k].notification_type = notificationType
  ELSE 0

\* POST /api/subscribe of server-complete.js for a stored bill: INSERT ... ON
\* CONFLICT (email, bill_id, notification_type) DO UPDATE SET is_active = TRUE
\* (the verification token is not modelled)
Subscribe(email, billId, notificationType) ==
  /\ clock < MaxClock
  /\ \E k \in DOMAIN bills : bills[k].id = billId
  /\ LET k == SubscriptionOf(email_subscriptions, email, billId, notificationType)
     IN email_subscriptions' =
          IF k = 0
          THEN Append(email_subscriptions,
                      [id |-> Len(email_subscriptions) + 1, email |-> email,
                       bill_id |-> billId, notification_type |-> notificationType,
                       is_active |-> TRUE, verified_at |-> NullTime, created_at |-> clock,
                       last_notification_at |-> NullTime])
          ELSE [email_subscriptions EXCEPT ![k].is_active = TRUE]
  /\ clock' = clock + 1
  /\ UNCHANGED <<syncVars, tables, outbox, checker, statsCache, served>>

\* GET /api/verify-email with the token of row k: UPDATE email_subscriptions
\* SET verified_at = NOW() WHERE verification_token = $1 AND verified_at IS NULL
VerifyEmail(k) ==
  /\ clock < MaxClock
  /\ email_subscriptions[k].verified_at = NullTime
  /\ email_subscriptions' = [email_subscriptions EXCEPT ![k].verified_at = clock]
  /\ clock' = clock + 1
  /\ UNCHANGED <<syncVars, tables, outbox, checker, statsCache, served>>

\* GET /api/unsubscribe with the token of row k: SET is_active = FALSE
Unsubscribe(k) ==
  /\ email_subscriptions[k].is_active
  /\ email_subscriptions' = [email_subscriptions EXCEPT ![k].is_active = FALSE]
  /\ UNCHANGED <<syncVars, tables, clock, outbox, checker, statsCache, served>>

\* the columns the first query of checkNotifications selects from
\* email_subscriptions es JOIN bills b: es.created_at is not among them
SelectedRow(es, b) ==
  [subscription_id |-> es.id, email |-> es.email,
   notification_type |-> es.notification_type,
   last_notification_at |-> es.last_notification_at,
   bill_id |-> b.id, title |-> b.title, stage |-> b.stage]

\* WHERE es.is_active = TRUE AND es.verified_at IS NOT NULL
\*   AND es.notification_type IN ('status_change', 'all_updates')
Selected(es) ==
  /\ es.is_active
  /\ es.verified_at # NullTime
  /\ es.notification_type \in {"status_change", "all_updates"}

RECURSIVE ActiveSubscriptions(_, _)
ActiveSubscriptions(subs, tbl) ==
  IF subs = <<>> THEN <<>>
  ELSE (IF Selected(Head(subs)) /\ \E k \in DOMAIN tbl : tbl[k].id = Head(subs).bill_id
        THEN <<SelectedRow(Head(subs),
                           tbl[CHOOSE k \in DOMAIN tbl : tbl[k].id = Head(subs).bill_id])>>
        ELSE <<>>)
       \o ActiveSubscriptions(Tail(subs), tbl)

\* subscription.last_notification_at || subscription.created_at: a property
\* the row does not have is undefined, and is sent to the database as NULL
LastCheck(subscription) ==
  IF subscription.last_notification_at # NullTime THEN subscription.last_notification_at
  ELSE IF Has(subscription, "created_at") THEN subscription.created_at
  ELSE NullTime

\* SELECT * FROM bill_history WHERE bill_id = $1 AND changed_at > $2
\* ORDER BY changed_at DESC LIMIT 1: the positions of the rows it returns
\* (changed_at > NULL is not true of any row)
LatestChange(tbl, billId, lastCheck) ==
  LET found == {k \in DOMAIN tbl : /\ tbl[k].bill_id = billId
                                   /\ lastCheck # NullTime
                                   /\ tbl[k].changed_at > lastCheck}
  IN {k \in found : \A n \in found : tbl[n].changed_at <= tbl[k].changed_at}

\* sendBillStatusChangeEmail reports success (delivery is taken to succeed)
Delivered == {TRUE}

\* the cron job starts checkNotifications: the query of the active, verified
\* subscriptions; with none it ends the pool and returns
N_Select ==
  /\ checker.pc = "idle"
  /\ LET subscriptions == ActiveSubscriptions(email_subscriptions, bills)
     IN checker' = IF Len(subscriptions) = 0
                   THEN [InitChecker EXCEPT !.pc = "N_end"]
                   ELSE [pc |-> "N_process", subscriptions |-> subscriptions, idx |-> 1,
                         notificationsSent |-> 0]
  /\ UNCHANGED <<syncVars, tables, clock, email_subscriptions, outbox, statsCache, served>>

\* for (const subscription of subscriptions)
NextSubscription(c) ==
  IF c.idx < Len(c.subscriptions) THEN [c EXCEPT !.idx = @ + 1]
  ELSE [c EXCEPT !.pc = "N_end"]

\* the body of the loop for one subscription: the history query, the email and
\* the update of last_notification_at
N_Process ==
  /\ checker.pc = "N_process"
  /\ LET subscription == checker.subscriptions[checker.idx]
         lastCheck == LastCheck(subscription)
         rows == LatestChange(bill_history, subscription.bill_id, lastCheck)
     IN IF rows = {}
        THEN /\ checker' = NextSubscription(checker)
             /\ UNCHANGED <<outbox, email_subscriptions>>
        ELSE \E k \in rows : \E success \in Delivered :
               LET change == bill_history[k]
               IN /\ outbox' = Append(outbox, [to |-> subscription.email,
                                               bill_id |-> subscription.bill_id,
                                               oldStage |-> change.previous_stage,
                                               newStage |-> change.stage])
                  /\ IF success
                     THEN /\ email_subscriptions' =
                               [n \in DOMAIN email_subscriptions |->
                                  IF email_subscriptions[n].id = subscription.subscription_id
                                  THEN [email_subscriptions[n] EXCEPT
                                          !.last_notification_at = clock]
                                  ELSE email_subscriptions[n]]
                          /\ checker' = NextSubscription(
                               [checker EXCEPT !.notificationsSent = @ + 1])
                     ELSE /\ checker' = NextSubscription(checker)
                          /\ UNCHANGED email_subscriptions
  /\ UNCHANGED <<syncVars, tables, clock, statsCache, served>>

\* finally: pool.end(); the process of this hour ends
N_End ==
  /\ checker.pc = "N_end"
  /\ checker' = InitChecker
  /\ UNCHANGED <<syncVars, tables, clock, email_subscriptions, outbox, statsCache, served>>

\* the steps of the notification checker
CheckNotifications == N_Select \/ N_Process \/ N_End

InitNotify ==
  /\ srcBills = <<>>
  /\ srcPeople = <<>>
  /\ InitTables
  /\ local = [p \in Procs |-> InitLocal]
  /\ runs = 0
  /\ faults = 0
  /\ observed = [b \in BillIds |-> <<>>]
  /\ pre = NoPre
  /\ stageInput = [latest_action_description |-> <<>>]
  /\ stageResult = NoResult
  /\ InitWeb

NextNotify ==
  \/ \E actions \in {L1, L2, L3} : SyncBill(actions)
  \/ \E email \in Emails, notificationType \in NotificationTypes :
       \E k \in DOMAIN bills : Subscribe(email, bills[k].id, notificationType)
  \/ \E k \in DOMAIN email_subscriptions : VerifyEmail(k)
  \/ \E k \in DOMAIN email_subscriptions : Unsubscribe(k)
  \/ N_Select
  \/ N_Process
  \/ N_End

\* cron starts the checker every hour, and a started checker runs to its end
SpecNotify == InitNotify /\ [][NextNotify]_vars /\ WF_vars(CheckNotifications)

\* an active, verified status_change subscription whose bill has a stage change
\* recorded after the subscription was verified
Owed(s) ==
  /\ s.is_active
  /\ s.verified_at # NullTime
  /\ s.notification_type = "status_change"
  /\ \E k \in DOMAIN bill_history :
       /\ bill_history[k].bill_id = s.bill_id
       /\ bill_history[k].changed_at > s.verified_at

SomeoneOwed == \E n \in DOMAIN email_subscriptions : Owed(email_subscriptions[n])

\* a status-change email has been sent
Notified == outbox # <<>>

\* C25: once a stage change of a bill is recorded in bill_history for an
\* active, verified status_change subscription, some later run of the hourly
\* checker sends the subscriber a status-change email (unless the subscriber
\* unsubscribes first), also when the subscription was never notified before
C25_NotificationLiveness == SomeoneOwed ~> (Notified \/ ~SomeoneOwed)

\* the checker never sends anything
NeverNotified == outbox = <<>>

(***************************************************************************)
(* The in-memory cache of server-enhanced.js.  Time is counted in minutes. *)
(* Every cached value carries the history field fetchedAt: the time at     *)
(* which the bills it was computed from were fetched.                      *)
(***************************************************************************)

\* const CACHE_DURATION = 5 * 60 * 1000, in minutes
CACHE_DURATION == 5

MaxMinutes == 7

\* fetchAllBills(15)
maxPagesEnhanced == 15

\* the states of the /bills source read by the server
CacheBillSources ==
  { <<PageOfTotal(<<B1(L1)>>, 2), PageOfTotal(<<B2(L1)>>, 2)>>,
    <<PageOfTotal(<<B1(L2)>>, 2), PageOfTotal(<<B2(Lbvs)>>, 2)>> }

\* what the enhanced server leaves alone
cacheFrame ==
  <<srcPeople, tables, local, runs, faults, observed, pre, stageInput, stageResult,
    email_subscriptions, outbox, checker>>

\* statsCache.X && statsCache.lastUpdate && (Date.now() - statsCache.lastUpdate < CACHE_DURATION)
CacheFresh(cache, field, now) ==
  /\ cache[field] # <<>>
  /\ cache.lastUpdate # NullTime
  /\ now - cache.lastUpdate < CACHE_DURATION

\* the while loop of fetchAllBills from this page on (no request fails)
RECURSIVE FetchPages(_, _, _, _)
FetchPages(src, page, allBills, maxPagesArg) ==
  IF page > maxPagesArg THEN allBills
  ELSE LET data == Get(src, page)
           fetched == allBills \o data.results
       IN IF Len(data.results) = 0 THEN allBills
          ELSE IF ~Has(data, "pagination")
                  \/ (Has(data.pagination, "total_pages")
                        /\ page >= data.pagination.total_pages)
               THEN fetched
               ELSE FetchPages(src, page + 1, fetched, maxPagesArg)

\* statsCache after fetchAllBills(maxPages): unchanged on a cache hit, else
\* with the bills just fetched and lastUpdate = Date.now()
fetchAllBills(cache, src, now) ==
  IF CacheFresh(cache, "allBills", now) THEN cache
  ELSE [cache EXCEPT
          !.allBills = <<[bills |-> FetchPages(src, 1, <<>>, maxPagesEnhanced),
                          fetchedAt |-> now]>>,
          !.lastUpdate = now]

\* the number of these bills whose stage is in the set
CountStages(allBills, stages) ==
  Cardinality({k \in DOMAIN allBills : determineBillStageEnhanced(allBills[k]) \in stages})

\* the result of /api/stats/pipeline
PipelineOf(allBills, now) ==
  [total_bills |-> Len(allBills),
   by_stage |-> [s \in {"introduced", "committee", "committee_approved", "floor_calendar",
                        "passed_chamber", "enrolled", "signed", "became_law", "vetoed",
                        "dead"} |-> CountStages(allBills, {s})],
   last_updated |-> now]

\* the result of /api/stats/summary (house_bills and senate_bills are not modelled)
SummaryOf(allBills) ==
  [total_bills |-> Len(allBills),
   active_bills |-> Len(allBills)
                      - CountStages(allBills, {"signed", "became_law", "vetoed", "dead"}),
   passed_bills |-> CountStages(allBills, {"signed", "became_law"}),
   vetoed_bills |-> CountStages(allBills, {"vetoed"})]

\* history: a response, the time it was sent and the time its bills were fetched
Response(endpoint, body, fetchedAt) ==
  [endpoint |-> endpoint, body |-> body, fetchedAt |-> fetchedAt, at |-> clock]

\* GET /api/bills without filters: every bill with its stage
GetBills ==
  /\ LET cache == fetchAllBills(statsCache, srcBills, clock)
         allBills == cache.allBills[1]
     IN /\ statsCache' = cache
        /\ served' = Response("/api/bills",
                              [k \in DOMAIN allBills.bills |->
                                 [id |-> allBills.bills[k].id,
                                  stage |-> determineBillStageEnhanced(allBills.bills[k])]],
                              allBills.fetchedAt)
  /\ UNCHANGED <<cacheFrame, srcBills, clock>>

\* GET /api/stats/pipeline
GetPipeline ==
  /\ IF CacheFresh(statsCache, "pipeline", clock)
     THEN /\ served' = Response("/api/stats/pipeline", statsCache.pipeline[1].result,
                                statsCache.pipeline[1].fetchedAt)
          /\ UNCHANGED statsCache
     ELSE LET cache == fetchAllBills(statsCache, srcBills, clock)
              allBills == cache.allBills[1]
              result == PipelineOf(allBills.bills, clock)
          IN /\ statsCache' =
                  [cache EXCEPT !.pipeline = <<[result |-> result,
                                                fetchedAt |-> allBills.fetchedAt]>>]
             /\ served' = Response("/api/stats/pipeline", result, allBills.fetchedAt)
  /\ UNCHANGED <<cacheFrame, srcBills, clock>>

\* GET /api/stats/summary
GetSummary ==
  /\ IF CacheFresh(statsCache, "summary", clock)
     THEN /\ served' = Response("/api/stats/summary", statsCache.summary[1].result,
                                statsCache.summary[1].fetchedAt)
          /\ UNCHANGED statsCache
     ELSE LET cache == fetchAllBills(statsCache, srcBills, clock)
              allBills == cache.allBills[1]
              stats == SummaryOf(allBills.bills)
          IN /\ statsCache' =
                  [cache EXCEPT !.summary = <<[result |-> stats,
                                               fetchedAt |-> allBills.fetchedAt]>>]
             /\ served' = Response("/api/stats/summary", stats, allBills.fetchedAt)
  /\ UNCHANGED <<cacheFrame, srcBills, clock>>

\* POST /api/cache/clear
ClearCache ==
  /\ statsCache # EmptyCache
  /\ statsCache' = EmptyCache
  /\ UNCHANGED <<cacheFrame, srcBills, clock, served>>

\* a minute passes
Minute ==
  /\ clock < MaxMinutes
  /\ clock' = clock + 1
  /\ UNCHANGED <<cacheFrame, srcBills, statsCache, served>>

\* the source publishes another state of the bills
CacheSourceChange ==
  /\ srcBills' \in CacheBillSources \ {srcBills}
  /\ UNCHANGED <<cacheFrame, clock, statsCache, served>>

InitCache ==
  /\ srcBills \in CacheBillSources
  /\ srcPeople = <<>>
  /\ InitTables
  /\ local = [p \in Procs |-> InitLocal]
  /\ runs = 0
  /\ faults = 0
  /\ observed = [b \in BillIds |-> <<>>]
  /\ pre = NoPre
  /\ stageInput = [latest_action_description |-> <<>>]
  /\ stageResult = NoResult
  /\ InitWeb

NextCache ==
  \/ GetBills
  \/ GetPipeline
  \/ GetSummary
  \/ ClearCache
  \/ Minute
  \/ CacheSourceChange

SpecCache == InitCache /\ [][NextCache]_vars

\* the last response was computed from bills fetched at most CACHE_DURATION
\* before it was sent
ServedFresh == served.at - served.fetchedAt <= CACHE_DURATION

\* C26: every bill list, pipeline-statistics or summary-statistics response is
\* computed from bills fetched at most CACHE_DURATION (5 minutes) before the
\* request, for any interleaving of requests to the three endpoints
C26_CacheExpiry == served # NoResponse => ServedFresh

\* the bill list responses are always computed from bills fetched less than
\* CACHE_DURATION before
BillListFresh == (served # NoResponse /\ served.endpoint = "/api/bills") => ServedFresh

====
